---- MODULE Spec2Model ----
(***************************************************************************)
(* RU-PATH bus routing: the index build of DataLoader (data_loader.py) and *)
(* the route planner RoutingEngine (routing_engine.py).                    *)
(*                                                                         *)
(* Representation.  A Python str is a sequence of one-character strings.   *)
(* A Python set is a duplicate-free sequence: its elements in the order    *)
(* the process iterates them (fixed for one process, arbitrary across      *)
(* processes because str hashes are seeded per process).  A dict is a      *)
(* function whose DOMAIN is its key set.  None is NoneT for a str-valued   *)
(* slot, NoneId for a route id and NoPath for a list-valued slot.          *)
(***************************************************************************)
EXTENDS Naturals, Integers, Sequences, FiniteSets, TLC

VARIABLES
    routes,            \* rutgers_bus_routes.json["routes"], as parsed
    buildings,         \* Buildings.json, flattened in file order
    phase,             \* "start" before DataLoader.__init__, "loaded" after
    buildings_by_name, \* DataLoader.buildings_by_name
    alias_to_building_key,
    route_stop_names,  \* DataLoader.route_stop_names (sorted list)
    stop_graph,        \* DataLoader.stop_graph (defaultdict(set))
    edge_to_routes,    \* DataLoader.edge_to_routes (defaultdict(set))
    building_stop_map, \* DataLoader.building_stop_map
    call,              \* the last plan_building_to_building call's arguments
    result,            \* ... and what it returned
    run,               \* one planning call executed loop iteration by loop iteration
    probe,             \* the last call of describe_plan or of a helper, and its value
    sessions,          \* ParkingChatbot.sessions: session key -> its context dict
    ctxs,              \* the context dicts: what each holds under "mode"
    threads            \* the request threads of the server: where each is in chat

vars == <<routes, buildings, phase, buildings_by_name, alias_to_building_key,
          route_stop_names, stop_graph, edge_to_routes, building_stop_map,
          call, result, run, probe, sessions, ctxs, threads>>

index == <<buildings_by_name, alias_to_building_key, route_stop_names,
           stop_graph, edge_to_routes, building_stop_map>>

-----------------------------------------------------------------------------
(* Bounds of the model.                                                    *)

MaxEntries == 2

\* the most edges of a stop graph searched directly
MaxEdges == 5

\* the most stops of a stop list compressed directly
MaxPathLen == 3

\* the most edges of a stop graph searched over pairs of stop lists
MaxPairEdges == 3

\* the most characters of a text normalised directly
MaxTextLen == 4

-----------------------------------------------------------------------------
(* Python values.                                                          *)

NoneT == <<"<None>">>
NoneId == "<None>"
NoPath == <<>>

SeqToSet(s) == {s[i] : i \in 1..Len(s)}

RECURSIVE Perms(_)
Perms(S) ==
    IF S = {} THEN {<<>>}
    ELSE UNION {{<<x>> \o p : p \in Perms(S \ {x})} : x \in S}

Contains(s, x) == \E i \in 1..Len(s) : s[i] = x

\* list.index(x): the first position of x, counted from 1
IndexOf(s, x) == CHOOSE i \in 1..Len(s) : s[i] = x /\ \A k \in 1..(i - 1) : s[k] # x

Reverse(s) == [i \in 1..Len(s) |-> s[Len(s) + 1 - i]]

\* s[lo:hi] on 1-based inclusive positions
Slice(s, lo, hi) == [i \in 1..(hi - lo + 1) |-> s[lo + i - 1]]

Last(s) == s[Len(s)]

-----------------------------------------------------------------------------
(* Characters and str methods.                                             *)

Upper == {"A", "B", "C", "H", "L", "Y"}
LowerCh == {"a", "b", "c", "h", "l", "x", "y"}
Space == {" "}

Ord(ch) ==
    CASE ch = " " -> 32
      [] ch = "@" -> 64
      [] ch = "A" -> 65
      [] ch = "B" -> 66
      [] ch = "C" -> 67
      [] ch = "H" -> 72
      [] ch = "L" -> 76
      [] ch = "Y" -> 89
      [] ch = "a" -> 97
      [] ch = "b" -> 98
      [] ch = "c" -> 99
      [] ch = "h" -> 104
      [] ch = "l" -> 108
      [] ch = "x" -> 120
      [] ch = "y" -> 121

isalnum(ch) == ch \in Upper \cup LowerCh
isspace(ch) == ch \in Space

lowerCh(ch) ==
    CASE ch = "A" -> "a"
      [] ch = "B" -> "b"
      [] ch = "C" -> "c"
      [] ch = "H" -> "h"
      [] ch = "L" -> "l"
      [] ch = "Y" -> "y"
      [] OTHER -> ch

lower(t) == [i \in 1..Len(t) |-> lowerCh(t[i])]

RECURSIVE lstrip(_)
lstrip(t) == IF t # <<>> /\ isspace(Head(t)) THEN lstrip(Tail(t)) ELSE t

strip(t) == Reverse(lstrip(Reverse(lstrip(t))))

\* str < str: code-point lexicographic order
RECURSIVE StrLess(_, _)
StrLess(s, t) ==
    IF t = <<>> THEN FALSE
    ELSE IF s = <<>> THEN TRUE
    ELSE IF Ord(Head(s)) # Ord(Head(t)) THEN Ord(Head(s)) < Ord(Head(t))
    ELSE StrLess(Tail(s), Tail(t))

\* sorted(set(...)) of strs
RECURSIVE Sorted(_)
Sorted(S) ==
    IF S = {} THEN <<>>
    ELSE LET m == CHOOSE x \in S : \A y \in S \ {x} : StrLess(x, y)
         IN <<m>> \o Sorted(S \ {m})

_norm(text) ==
    strip(lower(SelectSeq(text, LAMBDA ch : isalnum(ch) \/ isspace(ch))))

-----------------------------------------------------------------------------
(* difflib.get_close_matches(word, possibilities, n=1, cutoff), the        *)
(* standard library's matcher: SequenceMatcher.ratio() is 2*M/T with M the *)
(* total size of the matching blocks found by recursive longest-match and  *)
(* T the two lengths together.  Positions are 0-based and half-open as in  *)
(* difflib.  A cutoff is the fraction num/10.                              *)

BuildingCutoffTenths == 6
StopCutoffTenths == 5

MatchAt(a, b, i, j, k) == \A d \in 1..k : a[i + d] = b[j + d]

\* find_longest_match: longest block, then earliest in a, then earliest in b
LongestMatch(a, b, alo, ahi, blo, bhi) ==
    LET C == {c \in (alo..ahi) \X (blo..bhi) \X (0..(ahi - alo)) :
                 /\ c[1] + c[3] <= ahi
                 /\ c[2] + c[3] <= bhi
                 /\ MatchAt(a, b, c[1], c[2], c[3])}
    IN CHOOSE c \in C : \A e \in C :
           \/ c[3] > e[3]
           \/ c[3] = e[3] /\ c[1] < e[1]
           \/ c[3] = e[3] /\ c[1] = e[1] /\ c[2] <= e[2]

\* get_matching_blocks, summed
RECURSIVE MatchSize(_, _, _, _, _, _)
MatchSize(a, b, alo, ahi, blo, bhi) ==
    LET m == LongestMatch(a, b, alo, ahi, blo, bhi)
        i == m[1]
        j == m[2]
        k == m[3]
    IN IF k = 0 THEN 0
       ELSE k + (IF alo < i /\ blo < j THEN MatchSize(a, b, alo, i, blo, j) ELSE 0)
              + (IF i + k < ahi /\ j + k < bhi
                 THEN MatchSize(a, b, i + k, ahi, j + k, bhi) ELSE 0)

\* ratio() as the fraction <<2*M, T>>; 1.0 when both are empty
Ratio(a, b) ==
    IF Len(a) + Len(b) = 0 THEN <<1, 1>>
    ELSE <<2 * MatchSize(a, b, 0, Len(a), 0, Len(b)), Len(a) + Len(b)>>

RatioLess(r1, r2) == r1[1] * r2[2] < r2[1] * r1[2]

\* r >= tenths/10
RatioAtLeast(r, tenths) == 10 * r[1] >= tenths * r[2]

\* (ry, y) < (rx, x) as Python orders tuples
ScoredLess(ry, y, rx, x) == RatioLess(ry, rx) \/ (~RatioLess(rx, ry) /\ StrLess(y, x))

\* heapq.nlargest(1, result): the greatest (score, x) tuple, so equal scores go
\* to the greater string
Largest(word, ok) ==
    IF ok = {} THEN NoneT
    ELSE CHOOSE x \in ok : \A y \in ok \ {x} :
             ScoredLess(Ratio(y, word), y, Ratio(x, word), x)

\* matches[0] of get_close_matches(word, possibilities, n=1, cutoff), or NoneT
\* when the list is empty
GetCloseMatch(word, possibilities, tenths) ==
    Largest(word, {x \in SeqToSet(possibilities) : RatioAtLeast(Ratio(x, word), tenths)})

-----------------------------------------------------------------------------
(* The datasets.  Names are shortened: "Y" stands for the stop "The Yard", *)
(* "C" for "College Avenue Student Center", "H" for "Hill Center", and     *)
(* "Y@CA" for the synthetic building "The Yard @ College Avenue".          *)

RawStopNames == {<<>>, <<"H">>, <<"Y">>, <<"C">>}

RECURSIVE SeqsUpTo(_, _)
SeqsUpTo(S, n) ==
    IF n = 0 THEN {<<>>}
    ELSE LET shorter == SeqsUpTo(S, n - 1)
         IN shorter \cup {Append(q, x) : q \in {r \in shorter : Len(r) = n - 1}, x \in S}

\* the first route of a generated file is line "A" or has no id, the later
\* ones are line "B"
RouteIdsAt(n) == IF n = 1 THEN {"A", NoneId} ELSE {"B"}

RouteRecords(n, k) ==
    {[route_id |-> id, stops |-> st] :
        id \in RouteIdsAt(n),
        st \in {q \in SeqsUpTo(RawStopNames, k) : Len(q) = k}}

\* every route list holding at most budget stop entries, the next route being
\* the n-th
RECURSIVE RouteFilesFrom(_, _)
RouteFilesFrom(n, budget) ==
    IF budget = 0 THEN {<<>>}
    ELSE {<<>>} \cup UNION {{<<r>> \o f : r \in RouteRecords(n, k),
                                         f \in RouteFilesFrom(n + 1, budget - k)} :
                            k \in 1..budget}

Route(id, st) == [route_id |-> id, stops |-> st]

\* larger route lists: two lines that meet at one stop, a loop line, two
\* lines around a square, one edge served by two lines, two components, and
\* a stop on no edge beside a chain of two lines, a route without id before
\* a line, a line with a nameless stop entry, a line that visits a stop twice
RouteFixtures ==
    {<<Route("A", <<<<"H">>, <<"C">>, <<"Y">>>>), Route("B", <<<<"Y">>, <<"L">>>>)>>,
     <<Route("A", <<<<"H">>, <<"Y">>, <<"C">>, <<"H">>>>)>>,
     <<Route("A", <<<<"Y">>, <<"H">>, <<"C">>>>), Route("B", <<<<"Y">>, <<"L">>, <<"C">>>>)>>,
     <<Route("A", <<<<"H">>, <<"Y">>>>), Route("B", <<<<"Y">>, <<"H">>>>),
       Route("A", <<<<"Y">>, <<"C">>>>)>>,
     <<Route("A", <<<<"H">>, <<"Y">>>>), Route("B", <<<<"C">>, <<"L">>>>)>>,
     <<Route("A", <<<<"Y">>>>), Route("B", <<<<"C">>, <<"L">>>>),
       Route("A", <<<<"L">>, <<"H">>>>)>>,
     <<Route(NoneId, <<<<"H">>, <<"Y">>>>), Route("B", <<<<"Y">>, <<"C">>>>)>>,
     <<Route("A", <<<<"H">>, <<>>, <<"C">>>>)>>,
     <<Route("A", <<<<"H">>, <<"Y">>, <<"H">>, <<"C">>>>)>>}

RouteFiles == RouteFilesFrom(1, MaxEntries) \cup RouteFixtures

BuildingFiles ==
    {<<>>}
    \cup {<<[name |-> <<"H">>, campus |-> "Busch", bus_stops |-> ls]>> :
            ls \in {<<<<"b">>>>, <<<<"h">>, <<"H">>>>}}

yard_name == <<"Y", "@", "C", "A">>
yard_campus == "College Avenue"
yard_bus_stops == <<<<"Y">>, <<"C">>>>

\* alias_map of _load_buildings: alias -> canonical building name
alias_map ==
    (<<"y">> :> yard_name) @@ (<<"y", " ", "c">> :> yard_name)
    @@ (<<"h", "x">> :> <<"H">>) @@ (<<"b", "x">> :> <<"B">>)

-----------------------------------------------------------------------------
(* DataLoader: the index build.                                            *)

NoBuilding == [name |-> NoneT, campus |-> NoneId, bus_stops |-> <<>>]

Put(d, k, v) == IF k \in DOMAIN d THEN [d EXCEPT ![k] = v] ELSE d @@ (k :> v)

EmptyDict == [k \in {} |-> {}]

\* _load_buildings, lines 60-88: the JSON buildings in file order, then the
\* synthetic Yard entry
RECURSIVE LoadJsonBuildings(_, _)
LoadJsonBuildings(bs, acc) ==
    IF bs = <<>> THEN acc
    ELSE LET b == Head(bs)
             name == strip(b.name)
         IN IF name = <<>> THEN LoadJsonBuildings(Tail(bs), acc)
            ELSE LoadJsonBuildings(Tail(bs),
                     Put(acc, _norm(name),
                         [name |-> name, campus |-> b.campus, bus_stops |-> b.bus_stops]))

LoadBuildings(bs) ==
    Put(LoadJsonBuildings(bs, EmptyDict), _norm(yard_name),
        [name |-> yard_name, campus |-> yard_campus, bus_stops |-> yard_bus_stops])

\* _load_buildings, lines 107-111
LoadAliases == [a \in {_norm(k) : k \in DOMAIN alias_map} |->
                   _norm(alias_map[CHOOSE k \in DOMAIN alias_map : _norm(k) = a])]

\* the stripped stop names of one route record (data_loader.py line 143,
\* routing_engine.py line 89)
StopsOf(r) == [i \in 1..Len(r.stops) |-> strip(r.stops[i])]

\* _load_bus_routes, lines 121-128
RECURSIVE AllRouteStops(_)
AllRouteStops(rs) ==
    IF rs = <<>> THEN {}
    ELSE (SeqToSet(StopsOf(Head(rs))) \ {<<>>}) \cup AllRouteStops(Tail(rs))

RouteStopNames(rs) == Sorted(AllRouteStops(rs))

\* defaultdict(set)[k].add(x)
AddTo(d, k, x) == IF k \in DOMAIN d THEN [d EXCEPT ![k] = @ \cup {x}] ELSE d @@ (k :> {x})

\* _load_bus_routes, lines 144-151: one consecutive pair of one route
AddPairMissingReverse(g, a, b, rid) ==
    IF a = <<>> \/ b = <<>> THEN g
    ELSE [graph |-> AddTo(AddTo(g.graph, a, b), b, a),
          edges |-> AddTo(g.edges, <<a, b>>, rid)]

AddPair(g, a, b, rid) ==
    IF a = <<>> \/ b = <<>> THEN g
    ELSE [graph |-> AddTo(AddTo(g.graph, a, b), b, a),
          edges |-> AddTo(AddTo(g.edges, <<a, b>>, rid), <<b, a>>, rid)]

RECURSIVE AddRoute(_, _, _, _)
AddRoute(g, stops, i, rid) ==
    IF i >= Len(stops) THEN g
    ELSE AddRoute(AddPair(g, stops[i], stops[i + 1], rid), stops, i + 1, rid)

\* _load_bus_routes, lines 138-151: the two defaultdicts as dicts of sets
RECURSIVE BuildGraph(_, _)
BuildGraph(rs, g) ==
    IF rs = <<>> THEN g
    ELSE BuildGraph(Tail(rs), AddRoute(g, StopsOf(Head(rs)), 1, Head(rs).route_id))

GraphSets(rs) == BuildGraph(rs, [graph |-> EmptyDict, edges |-> EmptyDict])

\* every way a process can iterate the sets of a dict of sets
RECURSIVE Orderings(_)
Orderings(d) ==
    IF DOMAIN d = {} THEN {<<>>}
    ELSE LET k == CHOOSE x \in DOMAIN d : TRUE
             rest == [x \in DOMAIN d \ {k} |-> d[x]]
         IN {(k :> p) @@ f : p \in Perms(d[k]), f \in Orderings(rest)}

-----------------------------------------------------------------------------
(* DataLoader: the lookups.  Each takes the index it reads as arguments.   *)

\* the first / last position of rsn whose lower-cased name is low, 0 if none
FirstLower(rsn, low) ==
    LET same == {i \in 1..Len(rsn) : lower(rsn[i]) = low}
    IN IF same = {} THEN 0 ELSE CHOOSE i \in same : \A k \in same : i <= k

LastLower(rsn, low) ==
    LET same == {i \in 1..Len(rsn) : lower(rsn[i]) = low}
    IN IF same = {} THEN 0 ELSE CHOOSE i \in same : \A k \in same : i >= k

\* lines 209-219: the approximate match, mapped back through lower_to_canon
\* (a dict comprehension: the last stop with that lower-cased name wins)
FuzzyStop(rsn, match) == IF match = NoneT THEN NoneT ELSE rsn[LastLower(rsn, match)]

\* lines 204-207, then the approximate match
ExactOrFuzzyStop(rsn, low, first) ==
    IF first # 0 THEN rsn[first]
    ELSE FuzzyStop(rsn, GetCloseMatch(low, [i \in 1..Len(rsn) |-> lower(rsn[i])],
                                      StopCutoffTenths))

\* resolve_stop_name taking every non-empty label for a stop name
ResolveStopUnchecked(rsn, label) ==
    IF label = <<>> \/ label = NoneT \/ strip(label) = <<>> THEN NoneT
    ELSE strip(label)

\* resolve_stop_name, lines 194-219; rsn is route_stop_names
resolve_stop_name(rsn, label) ==
    IF label = <<>> \/ label = NoneT THEN NoneT
    ELSE ExactOrFuzzyStop(rsn, lower(strip(label)), FirstLower(rsn, lower(strip(label))))

\* lines 187-192
FuzzyBuilding(bbn, match) == IF match = NoneT THEN NoBuilding ELSE bbn[match]

\* lines 178-192 on the normalised key
BuildingByKey(bbn, al, key) ==
    IF key \in DOMAIN bbn THEN bbn[key]
    ELSE IF key \in DOMAIN al /\ al[key] # <<>> /\ al[key] \in DOMAIN bbn
    THEN bbn[al[key]]
    ELSE FuzzyBuilding(bbn, GetCloseMatch(key, Sorted(DOMAIN bbn), BuildingCutoffTenths))

\* resolve_building, lines 172-192; bbn is buildings_by_name, al the alias dict
resolve_building(bbn, al, name) ==
    IF name = <<>> \/ name = NoneT THEN NoBuilding
    ELSE BuildingByKey(bbn, al, _norm(name))

\* AppendNew without the `seen` test
AppendResolved(uniq, canon) ==
    IF canon = NoneT THEN uniq ELSE Append(uniq, canon)

\* _load_bus_routes, lines 156-167: resolve the labels, keep first occurrences
\* lines 159-167 for one label
AppendNew(uniq, canon) ==
    IF canon = NoneT \/ Contains(uniq, canon) THEN uniq ELSE Append(uniq, canon)

RECURSIVE ResolveLabels(_, _, _)
ResolveLabels(rsn, labels, uniq) ==
    IF labels = <<>> THEN uniq
    ELSE ResolveLabels(rsn, Tail(labels),
                       AppendNew(uniq, resolve_stop_name(rsn, Head(labels))))

BuildingStopMap(bbn, rsn) ==
    [key \in DOMAIN bbn |-> ResolveLabels(rsn, bbn[key].bus_stops, <<>>)]

\* dict.get(key, [])
DictGet(d, key) == IF key \in DOMAIN d THEN d[key] ELSE <<>>

\* get_building_stops, lines 221-226; bsm is building_stop_map
get_building_stops(bsm, building) ==
    IF building = NoBuilding THEN <<>>
    ELSE DictGet(bsm, _norm(building.name))

-----------------------------------------------------------------------------
(* RoutingEngine._shortest_path_between_stops, one loop iteration at a     *)
(* time.  pc: "pop" at the head of `while q`, "scan" inside `for v in      *)
(* graph[u]` before element k, "back" in the path reconstruction loop,     *)
(* "found" / "none" at the two returns.  enq holds every stop ever put on  *)
(* q, and dup says that one was put on q a second time.                    *)

\* defaultdict(set).__getitem__: a missing key is inserted with an empty set
Touch(graph, u) == IF u \in DOMAIN graph THEN graph ELSE graph @@ (u :> <<>>)

\* a search that leaves out the membership test of line 35
BfsStartUnguarded(graph, start, goal) ==
    [pc |-> IF start = goal THEN "found" ELSE "pop",
     graph |-> graph, goal |-> goal, q |-> <<start>>, prev |-> (start :> NoneT),
     u |-> start, k |-> 1, enq |-> {start}, dup |-> FALSE,
     path |-> IF start = goal THEN <<start>> ELSE NoPath]

BfsStart(graph, start, goal) ==
    [pc |-> IF start = goal THEN "found"
            ELSE IF start \notin DOMAIN graph \/ goal \notin DOMAIN graph THEN "none"
            ELSE "pop",
     graph |-> graph, goal |-> goal, q |-> <<start>>, prev |-> (start :> NoneT),
     u |-> start, k |-> 1, enq |-> {start}, dup |-> FALSE,
     path |-> IF start = goal THEN <<start>> ELSE NoPath]

\* a search that leaves the neighbours of u at the first one already seen
BfsIterBreakOnSeen(st) ==
    CASE st.pc = "pop" ->
           IF st.q = <<>> THEN [st EXCEPT !.pc = "none"]
           ELSE [st EXCEPT !.pc = "scan", !.u = Head(st.q), !.q = Tail(st.q), !.k = 1,
                           !.graph = Touch(st.graph, Head(st.q))]
      [] st.pc = "scan" ->
           IF st.k > Len(st.graph[st.u]) THEN [st EXCEPT !.pc = "pop"]
           ELSE LET v == st.graph[st.u][st.k]
                IN IF v \in DOMAIN st.prev THEN [st EXCEPT !.pc = "pop"]
                   ELSE IF v = st.goal
                   THEN [st EXCEPT !.pc = "back", !.prev = Put(@, v, st.u), !.path = <<v>>]
                   ELSE [st EXCEPT !.prev = Put(@, v, st.u), !.q = Append(@, v),
                                   !.enq = @ \cup {v},
                                   !.dup = @ \/ v \in st.enq, !.k = @ + 1]
      [] st.pc = "back" ->
           IF st.prev[Last(st.path)] = NoneT
           THEN [st EXCEPT !.pc = "found", !.path = Reverse(@)]
           ELSE [st EXCEPT !.path = Append(@, st.prev[Last(st.path)])]
      [] OTHER -> st

\* lines 43-56
BfsIter(st) ==
    CASE st.pc = "pop" ->
           IF st.q = <<>> THEN [st EXCEPT !.pc = "none"]
           ELSE [st EXCEPT !.pc = "scan", !.u = Head(st.q), !.q = Tail(st.q), !.k = 1,
                           !.graph = Touch(st.graph, Head(st.q))]
      [] st.pc = "scan" ->
           IF st.k > Len(st.graph[st.u]) THEN [st EXCEPT !.pc = "pop"]
           ELSE LET v == st.graph[st.u][st.k]
                IN IF v \in DOMAIN st.prev THEN [st EXCEPT !.k = @ + 1]
                   ELSE IF v = st.goal
                   THEN [st EXCEPT !.pc = "back", !.prev = Put(@, v, st.u), !.path = <<v>>]
                   ELSE [st EXCEPT !.prev = Put(@, v, st.u), !.q = Append(@, v),
                                   !.enq = @ \cup {v},
                                   !.dup = @ \/ v \in st.enq, !.k = @ + 1]
      [] st.pc = "back" ->
           IF st.prev[Last(st.path)] = NoneT
           THEN [st EXCEPT !.pc = "found", !.path = Reverse(@)]
           ELSE [st EXCEPT !.path = Append(@, st.prev[Last(st.path)])]
      [] OTHER -> st

BfsDone(st) == st.pc \in {"found", "none"}

RECURSIVE BfsRun(_)
BfsRun(st) == IF BfsDone(st) THEN st ELSE BfsRun(BfsIter(st))

\* lines 27-58: the returned path (NoPath for None) and the graph as the call
\* leaves it
BfsReturn(st) == [path |-> st.path, graph |-> st.graph]

_shortest_path_between_stops(graph, start, goal) ==
    BfsReturn(BfsRun(BfsStart(graph, start, goal)))

\* line 74: keep the candidate only if it is strictly shorter
Shorter(best, cand) ==
    IF cand.path # NoPath /\ (best.path = NoPath \/ Len(cand.path) < Len(best.path))
    THEN cand ELSE best

\* the n-th pair of `for s in origin_stops: for t in dest_stops`
PairS(origin_stops, dest_stops, n) == origin_stops[((n - 1) \div Len(dest_stops)) + 1]
PairT(origin_stops, dest_stops, n) == dest_stops[((n - 1) % Len(dest_stops)) + 1]

BfsCandidate(s, t, r) == [best |-> [s |-> s, t |-> t, path |-> r.path], graph |-> r.graph]

\* the pair loop keeping the later pair when two paths are equally long
KeepShorterOrEqual(acc, c) ==
    [best |-> IF c.best.path # NoPath
                 /\ (acc.best.path = NoPath \/ Len(c.best.path) <= Len(acc.best.path))
              THEN c.best ELSE acc.best,
     graph |-> c.graph]

KeepShorter(acc, c) == [best |-> Shorter(acc.best, c.best), graph |-> c.graph]

\* _best_bfs_path, lines 60-77, over the pairs in loop order from pair n on
RECURSIVE BestBfsFrom(_, _, _, _)
BestBfsFrom(origin_stops, dest_stops, n, acc) ==
    IF n > Len(origin_stops) * Len(dest_stops) THEN acc
    ELSE BestBfsFrom(origin_stops, dest_stops, n + 1,
             KeepShorter(acc,
                 BfsCandidate(PairS(origin_stops, dest_stops, n),
                              PairT(origin_stops, dest_stops, n),
                              _shortest_path_between_stops(acc.graph,
                                  PairS(origin_stops, dest_stops, n),
                                  PairT(origin_stops, dest_stops, n)))))

NoBest == [s |-> NoneT, t |-> NoneT, path |-> NoPath]

\* a search that tries the first pair of stops only
FirstPairOnly(graph, origin_stops, dest_stops) ==
    BfsCandidate(origin_stops[1], dest_stops[1],
                 _shortest_path_between_stops(graph, origin_stops[1], dest_stops[1]))

_best_bfs_path(graph, origin_stops, dest_stops) ==
    BestBfsFrom(origin_stops, dest_stops, 1, [best |-> NoBest, graph |-> graph])

-----------------------------------------------------------------------------
(* RoutingEngine._direct_path_between_stops and _build_legs.               *)

NoDirect == [route_id |-> NoneId, path |-> NoPath]

\* the route loop keeping the later route when two slices are equally long
RECURSIVE DirectFromLastWins(_, _, _, _, _)
DirectFromLastWins(rs, start, goal, n, best) ==
    IF n > Len(rs) THEN best
    ELSE LET stops == StopsOf(rs[n])
             i1 == IndexOf(stops, start)
             i2 == IndexOf(stops, goal)
             sub == IF i1 <= i2 THEN Slice(stops, i1, i2)
                    ELSE Reverse(Slice(stops, i2, i1))
         IN IF ~Contains(stops, start) \/ ~Contains(stops, goal)
            THEN DirectFromLastWins(rs, start, goal, n + 1, best)
            ELSE DirectFromLastWins(rs, start, goal, n + 1,
                     IF best.path = NoPath \/ Len(sub) <= Len(best.path)
                     THEN [route_id |-> rs[n].route_id, path |-> sub]
                     ELSE best)

\* the route loop that never reverses the slice
RECURSIVE DirectFromNoReverse(_, _, _, _, _)
DirectFromNoReverse(rs, start, goal, n, best) ==
    IF n > Len(rs) THEN best
    ELSE LET stops == StopsOf(rs[n])
             i1 == IndexOf(stops, start)
             i2 == IndexOf(stops, goal)
             sub == IF i1 <= i2 THEN Slice(stops, i1, i2) ELSE Slice(stops, i2, i1)
         IN IF ~Contains(stops, start) \/ ~Contains(stops, goal)
            THEN DirectFromNoReverse(rs, start, goal, n + 1, best)
            ELSE DirectFromNoReverse(rs, start, goal, n + 1,
                     IF best.path = NoPath \/ Len(sub) < Len(best.path)
                     THEN [route_id |-> rs[n].route_id, path |-> sub]
                     ELSE best)

\* lines 87-103, from route n on
RECURSIVE DirectFrom(_, _, _, _, _)
DirectFrom(rs, start, goal, n, best) ==
    IF n > Len(rs) THEN best
    ELSE LET stops == StopsOf(rs[n])
             i1 == IndexOf(stops, start)
             i2 == IndexOf(stops, goal)
             sub == IF i1 <= i2 THEN Slice(stops, i1, i2)
                    ELSE Reverse(Slice(stops, i2, i1))
         IN IF ~Contains(stops, start) \/ ~Contains(stops, goal)
            THEN DirectFrom(rs, start, goal, n + 1, best)
            ELSE DirectFrom(rs, start, goal, n + 1,
                     IF best.path = NoPath \/ Len(sub) < Len(best.path)
                     THEN [route_id |-> rs[n].route_id, path |-> sub]
                     ELSE best)

_direct_path_between_stops(rs, start, goal) == DirectFrom(rs, start, goal, 1, NoDirect)

\* edge_routes.get((a, b), set()): no key is inserted
EdgeGet(etr, a, b) == IF <<a, b>> \in DOMAIN etr THEN etr[<<a, b>>] ELSE <<>>

\* _build_legs, lines 115-154, one loop iteration at a time.  i and j are the
\* 0-based edge indexes of the code; edge i joins path[i+1] and path[i+2].
\* pc: "outer" at the head of `while i < len(edges)`, "inner" at the head of
\* `while j < len(edges)`, "done" at the return.
LegsStart(path) ==
    [pc |-> IF Len(path) < 2 THEN "done" ELSE "outer",
     path |-> path, i |-> 0, j |-> 0, route |-> NoneId, legs |-> <<>>]

\* a leg that stops one stop short: path[i:j] for path[i:j+1]
CloseLegShort(st) ==
    LET seg_stops == Slice(st.path, st.i + 1, st.j)
    IN [st EXCEPT !.pc = "outer", !.i = st.j,
                  !.legs = Append(@, [route_id |-> st.route,
                                      from_stop |-> seg_stops[1],
                                      to_stop |-> Last(seg_stops),
                                      stops |-> seg_stops])]

CloseLeg(st) ==
    LET seg_stops == Slice(st.path, st.i + 1, st.j + 1)
    IN [st EXCEPT !.pc = "outer", !.i = st.j,
                  !.legs = Append(@, [route_id |-> st.route,
                                      from_stop |-> seg_stops[1],
                                      to_stop |-> Last(seg_stops),
                                      stops |-> seg_stops])]

\* a leg loop that forgets `j += 1` on an edge the chosen route covers
LegsIterNoAdvance(etr, st) ==
    LET nEdges == Len(st.path) - 1
    IN CASE st.pc = "outer" ->
              IF st.i >= nEdges THEN [st EXCEPT !.pc = "done"]
              ELSE LET possible_routes == EdgeGet(etr, st.path[st.i + 1], st.path[st.i + 2])
                   IN [st EXCEPT !.pc = "inner", !.j = st.i + 1,
                                 !.route = IF possible_routes # <<>>
                                           THEN possible_routes[1] ELSE NoneId]
         [] st.pc = "inner" ->
              IF st.j >= nEdges THEN CloseLeg(st)
              ELSE LET routes_j == EdgeGet(etr, st.path[st.j + 1], st.path[st.j + 2])
                   IN IF st.route # NoneId /\ ~Contains(routes_j, st.route)
                      THEN CloseLeg(st)
                      ELSE IF st.route = NoneId /\ routes_j # <<>>
                      THEN [st EXCEPT !.route = routes_j[1], !.j = @ + 1]
                      ELSE st
         [] OTHER -> st

LegsIter(etr, st) ==
    LET nEdges == Len(st.path) - 1
    IN CASE st.pc = "outer" ->
              IF st.i >= nEdges THEN [st EXCEPT !.pc = "done"]
              ELSE LET possible_routes == EdgeGet(etr, st.path[st.i + 1], st.path[st.i + 2])
                   IN [st EXCEPT !.pc = "inner", !.j = st.i + 1,
                                 !.route = IF possible_routes # <<>>
                                           THEN possible_routes[1] ELSE NoneId]
         [] st.pc = "inner" ->
              IF st.j >= nEdges THEN CloseLeg(st)
              ELSE LET routes_j == EdgeGet(etr, st.path[st.j + 1], st.path[st.j + 2])
                   IN IF st.route # NoneId /\ ~Contains(routes_j, st.route)
                      THEN CloseLeg(st)
                      ELSE IF st.route = NoneId /\ routes_j # <<>>
                      THEN [st EXCEPT !.route = routes_j[1], !.j = @ + 1]
                      ELSE [st EXCEPT !.j = @ + 1]
         [] OTHER -> st

RECURSIVE LegsRun(_, _)
LegsRun(etr, st) == IF st.pc = "done" THEN st ELSE LegsRun(etr, LegsIter(etr, st))

_build_legs(etr, path) == LegsRun(etr, LegsStart(path)).legs

-----------------------------------------------------------------------------
(* RoutingEngine._resolve_place and plan_building_to_building.             *)

\* lines 172-182: the text as a bus stop
StopPlace(stop) ==
    IF stop # NoneT
    THEN [place |-> [name |-> stop, campus |-> NoneId, bus_stops |-> <<stop>>],
          stops |-> <<stop>>]
    ELSE [place |-> NoBuilding, stops |-> <<>>]

\* _resolve_place going on to the stop names when the building has no stops
BuildingWithStopsOrStop(bsm, rsn, name, b) ==
    IF b # NoBuilding /\ get_building_stops(bsm, b) # <<>>
    THEN [place |-> b, stops |-> get_building_stops(bsm, b)]
    ELSE StopPlace(resolve_stop_name(rsn, name))

\* lines 166-182: the building if there is one
BuildingOrStop(bsm, rsn, name, b) ==
    IF b # NoBuilding THEN [place |-> b, stops |-> get_building_stops(bsm, b)]
    ELSE StopPlace(resolve_stop_name(rsn, name))

\* lines 156-182: <<place, stops>>
_resolve_place(bbn, al, bsm, rsn, name) ==
    IF name = <<>> \/ name = NoneT THEN [place |-> NoBuilding, stops |-> <<>>]
    ELSE BuildingOrStop(bsm, rsn, name, resolve_building(bbn, al, name))

\* the message templates of plan_building_to_building
MsgNotFound == "I couldn't find a building or bus stop named **{}**."
MsgNoStops == "I don't know any bus stops near **{}**."
MsgNoPath == "I couldn't find any bus path between **{}** and **{}** using the JSON routes."

NoResult ==
    [type |-> "none", message |-> <<>>, origin_building |-> NoBuilding,
     dest_building |-> NoBuilding, origin_stop |-> NoneT, dest_stop |-> NoneT,
     stop_path |-> NoPath, legs |-> <<>>, via |-> "none"]

Error(text, args) == [NoResult EXCEPT !.type = "error", !.message = <<text>> \o args]

BusRoute(op, dp, s, t, path, legs, via) ==
    [type |-> "bus_route", message |-> <<>>, origin_building |-> op, dest_building |-> dp,
     origin_stop |-> s, dest_stop |-> t, stop_path |-> path, legs |-> legs, via |-> via]

NoBestDirect == [s |-> NoneT, t |-> NoneT, route_id |-> NoneId, path |-> NoPath]

DirectCandidate(s, t, direct) ==
    [s |-> s, t |-> t, route_id |-> direct.route_id, path |-> direct.path]

\* lines 219-227, over the pairs in loop order from pair n on
RECURSIVE BestDirectFrom(_, _, _, _, _)
BestDirectFrom(rs, origin_stops, dest_stops, n, best) ==
    IF n > Len(origin_stops) * Len(dest_stops) THEN best
    ELSE BestDirectFrom(rs, origin_stops, dest_stops, n + 1,
             Shorter(best,
                 DirectCandidate(PairS(origin_stops, dest_stops, n),
                                 PairT(origin_stops, dest_stops, n),
                                 _direct_path_between_stops(rs,
                                     PairS(origin_stops, dest_stops, n),
                                     PairT(origin_stops, dest_stops, n)))))

Returns(res, graph) == [result |-> res, graph |-> graph]

\* lines 229-247: the single-leg plan of the direct route
DirectPlan(o, d, best) ==
    BusRoute(o.place, d.place, best.s, best.t, best.path,
             <<[route_id |-> best.route_id, from_stop |-> best.path[1],
                to_stop |-> Last(best.path), stops |-> best.path]>>,
             "direct")

\* lines 250-271
FallbackPlan(etr, o, d, bfs) ==
    IF bfs.best.path = NoPath
    THEN Returns(Error(MsgNoPath, <<o.place.name, d.place.name>>), bfs.graph)
    ELSE Returns(BusRoute(o.place, d.place, bfs.best.s, bfs.best.t, bfs.best.path,
                          _build_legs(etr, bfs.best.path), "bfs"),
                 bfs.graph)

\* lines 229-247: the direct plan if a direct candidate was found, NoResult to
\* go on to the fallback
DirectOrNone(o, d, best_direct) ==
    IF best_direct.path # NoPath THEN DirectPlan(o, d, best_direct) ELSE NoResult

\* a planner that looks at the stop lists before the second place
EarlyResultStopsFirst(rs, origin_name, dest_name, o, d) ==
    IF o.place = NoBuilding THEN Error(MsgNotFound, <<origin_name>>)
    ELSE IF o.stops = <<>> THEN Error(MsgNoStops, <<o.place.name>>)
    ELSE IF d.place = NoBuilding THEN Error(MsgNotFound, <<dest_name>>)
    ELSE IF d.stops = <<>> THEN Error(MsgNoStops, <<d.place.name>>)
    ELSE DirectOrNone(o, d, BestDirectFrom(rs, o.stops, d.stops, 1, NoBestDirect))

\* lines 196-247, with the two places resolved: what is returned before the
\* fallback, NoResult if nothing is
EarlyResult(rs, origin_name, dest_name, o, d) ==
    IF o.place = NoBuilding THEN Error(MsgNotFound, <<origin_name>>)
    ELSE IF d.place = NoBuilding THEN Error(MsgNotFound, <<dest_name>>)
    ELSE IF o.stops = <<>> THEN Error(MsgNoStops, <<o.place.name>>)
    ELSE IF d.stops = <<>> THEN Error(MsgNoStops, <<d.place.name>>)
    ELSE DirectOrNone(o, d, BestDirectFrom(rs, o.stops, d.stops, 1, NoBestDirect))

\* a planner that takes the fallback's path whenever it has fewer stops
PreferShorter(early, fb) ==
    IF early = NoResult
       \/ (fb.result.type = "bus_route"
           /\ Len(fb.result.stop_path) < Len(early.stop_path))
    THEN fb ELSE Returns(early, fb.graph)

EarlyOrShorterFallback(early, graph, etr, o, d) ==
    IF early.type = "error" THEN Returns(early, graph)
    ELSE PreferShorter(early,
             FallbackPlan(etr, o, d, _best_bfs_path(graph, o.stops, d.stops)))

\* lines 249-271 unless something was returned before
EarlyOrFallback(early, graph, etr, o, d) ==
    IF early # NoResult THEN Returns(early, graph)
    ELSE FallbackPlan(etr, o, d, _best_bfs_path(graph, o.stops, d.stops))

PlanPlaces(rs, graph, etr, origin_name, dest_name, o, d) ==
    EarlyOrFallback(EarlyResult(rs, origin_name, dest_name, o, d), graph, etr, o, d)

\* lines 186-271: the returned dict (via: the branch that returned it) and the
\* stop graph as the call leaves it
plan_building_to_building(rs, bbn, al, bsm, rsn, graph, etr, origin_name, dest_name) ==
    PlanPlaces(rs, graph, etr, origin_name, dest_name,
               _resolve_place(bbn, al, bsm, rsn, origin_name),
               _resolve_place(bbn, al, bsm, rsn, dest_name))

-----------------------------------------------------------------------------
(* The program: the DataLoader is constructed once per process over the    *)
(* dataset files, then planning calls are served.                          *)

(***************************************************************************)
(* describe_plan, lines 273-311.  The answer is the list of its lines      *)
(* before the join; a line is its f-string template followed by the values *)
(* put into it.                                                            *)
(***************************************************************************)
LegLine(i, leg) ==
    IF leg.route_id # NoneId
    THEN <<"{}. Take route **{}** from **{}** to **{}**.", i, leg.route_id,
           leg.from_stop, leg.to_stop>>
    ELSE <<"{}. Travel from **{}** to **{}** (route not identified in JSON).", i,
           leg.from_stop, leg.to_stop>>

\* describe_plan numbering the legs from the last to the first
DescribeLegsBackwards(plan) ==
    IF plan.type # "bus_route" THEN <<plan.message>>
    ELSE <<<<"From **{}**, walk to **{}**.", plan.origin_building.name, plan.origin_stop>>>>
         \o <<<<"Then:">>>>
         \o [i \in 1..Len(plan.legs) |-> LegLine(i, plan.legs[Len(plan.legs) + 1 - i])]
         \o <<<<"Get off at **{}** and walk to **{}**.",
                plan.dest_stop, plan.dest_building.name>>>>

describe_plan(plan) ==
    IF plan.type # "bus_route" THEN <<plan.message>>
    ELSE <<<<"From **{}**, walk to **{}**.", plan.origin_building.name, plan.origin_stop>>>>
         \o (IF plan.legs = <<>>
             THEN <<<<"Then ride the next bus to **{}** and walk to **{}**.",
                      plan.dest_stop, plan.dest_building.name>>>>
             ELSE <<<<"Then:">>>>
                  \o [i \in 1..Len(plan.legs) |-> LegLine(i, plan.legs[i])]
                  \o <<<<"Get off at **{}** and walk to **{}**.",
                         plan.dest_stop, plan.dest_building.name>>>>)

\* the texts a caller passes as origin_name / dest_name
Texts == {<<>>, <<"x">>, <<"y">>, <<"H">>, <<"C">>, <<"h", "x">>}

NoCall == <<NoneT, NoneT>>

Idle == [pc |-> "idle"]

NoProbe == [fn |-> "none", args |-> <<>>, value |-> <<>>]

\* the request threads of the server (app.py line 56: app.run serves each
\* request on a thread of its own)
Threads == {1, 2}

\* the session keys a call can use, see SessionIds
Keys == {"default", "s1"}

\* one context dict for each key and one more for each thread that still holds
\* the dict of a session that api_reset has dropped
CtxIds == 1 .. (Cardinality(Keys) + Cardinality(Threads))

\* a context dict that does not exist
Free == "<free>"

\* chatbot.py line 25: self.sessions = {}, and no request is being served
InitSessions ==
    /\ sessions = EmptyDict
    /\ ctxs = [c \in CtxIds |-> Free]
    /\ threads = [t \in Threads |-> Idle]

\* before DataLoader.__init__ has run
InitIndex ==
    /\ InitSessions
    /\ phase = "start"
    /\ buildings_by_name = EmptyDict
    /\ alias_to_building_key = EmptyDict
    /\ route_stop_names = <<>>
    /\ stop_graph = EmptyDict
    /\ edge_to_routes = EmptyDict
    /\ building_stop_map = EmptyDict
    /\ call = NoCall
    /\ result = NoResult
    /\ run = Idle
    /\ probe = NoProbe

Init ==
    /\ routes \in RouteFiles
    /\ buildings \in BuildingFiles
    /\ InitIndex

\* DataLoader.__init__, lines 16-32: _load_buildings then _load_bus_routes.
\* The iteration order of each set is whatever this process's hashing gives.
LoadIndex ==
    /\ buildings_by_name' = LoadBuildings(buildings)
    /\ alias_to_building_key' = LoadAliases
    /\ route_stop_names' = RouteStopNames(routes)
    /\ stop_graph' \in Orderings(GraphSets(routes).graph)
    /\ edge_to_routes' \in Orderings(GraphSets(routes).edges)
    /\ building_stop_map' = BuildingStopMap(buildings_by_name', route_stop_names')

Load ==
    /\ phase = "start"
    /\ phase' = "loaded"
    /\ LoadIndex
    /\ UNCHANGED <<sessions, ctxs, threads, routes, buildings, call, result, run, probe>>

\* _resolve_place on the loaded indexes
PlaceOf(name) ==
    _resolve_place(buildings_by_name, alias_to_building_key, building_stop_map,
                   route_stop_names, name)

PlanNow(o, d) ==
    plan_building_to_building(routes, buildings_by_name, alias_to_building_key,
                              building_stop_map, route_stop_names, stop_graph,
                              edge_to_routes, o, d)

Returned(o, d, r) ==
    /\ call' = <<o, d>>
    /\ result' = r.result
    /\ stop_graph' = r.graph

\* one call of plan_building_to_building, start to return
Plan(o, d) ==
    /\ phase = "loaded"
    /\ run = Idle
    /\ call = NoCall
    /\ probe = NoProbe
    /\ Returned(o, d, PlanNow(o, d))
    /\ UNCHANGED <<sessions, ctxs, threads, routes, buildings, phase, buildings_by_name, alias_to_building_key,
                   route_stop_names, edge_to_routes, building_stop_map, run, probe>>

\* one call of describe_plan on the plan the last call returned
Describe ==
    /\ phase = "loaded"
    /\ run = Idle
    /\ call # NoCall
    /\ probe = NoProbe
    /\ probe' = [fn |-> "describe_plan", args |-> <<result>>,
                 value |-> describe_plan(result)]
    /\ UNCHANGED <<sessions, ctxs, threads, routes, buildings, phase, index, call, result, run>>

\* the caller drops what was returned
Forget ==
    /\ run = Idle
    /\ call # NoCall \/ probe # NoProbe
    /\ call' = NoCall
    /\ result' = NoResult
    /\ probe' = NoProbe
    /\ UNCHANGED <<sessions, ctxs, threads, routes, buildings, phase, index, run>>

Next ==
    \/ Load
    \/ \E o \in Texts, d \in Texts : Plan(o, d)
    \/ Describe
    \/ Forget

Spec == Init /\ [][Next]_vars

(***************************************************************************)
(* plan_building_to_building executed one loop iteration at a time: the    *)
(* checks and the direct search of lines 196-247 in one step, then the     *)
(* loops of _best_bfs_path, _shortest_path_between_stops and _build_legs   *)
(* iteration by iteration.  run.pc: "bfs" inside _best_bfs_path, "legs"    *)
(* inside _build_legs, "returned" at the return.                           *)
(***************************************************************************)
Returning == [pc |-> "returned"]

Started(o, d, early) ==
    IF early # NoResult
    THEN run' = Returning /\ result' = early
    ELSE /\ run' = [pc |-> "bfs", o |-> o, d |-> d, n |-> 1, best |-> NoBest,
                    bfs |-> BfsStart(stop_graph, PairS(o.stops, d.stops, 1),
                                     PairT(o.stops, d.stops, 1)),
                    legs |-> LegsStart(NoPath)]
         /\ result' = NoResult

Begin(origin_name, dest_name) ==
    /\ phase = "loaded"
    /\ run = Idle
    /\ call = NoCall
    /\ call' = <<origin_name, dest_name>>
    /\ Started(PlaceOf(origin_name), PlaceOf(dest_name),
               EarlyResult(routes, origin_name, dest_name,
                           PlaceOf(origin_name), PlaceOf(dest_name)))
    /\ UNCHANGED <<sessions, ctxs, threads, routes, buildings, phase, index, probe>>

\* one iteration of a loop of _shortest_path_between_stops
BfsStep ==
    /\ run.pc = "bfs"
    /\ ~BfsDone(run.bfs)
    /\ run' = [run EXCEPT !.bfs = BfsIter(@)]
    /\ stop_graph' = BfsIter(run.bfs).graph
    /\ UNCHANGED <<sessions, ctxs, threads, routes, buildings, phase, buildings_by_name, alias_to_building_key,
                   route_stop_names, edge_to_routes, building_stop_map, call, result, probe>>

\* lines 67-77 and 250-259: the search of one pair has returned
Paired(best) ==
    IF run.n < Len(run.o.stops) * Len(run.d.stops)
    THEN /\ run' = [run EXCEPT !.best = best, !.n = @ + 1,
                               !.bfs = BfsStart(stop_graph,
                                           PairS(run.o.stops, run.d.stops, run.n + 1),
                                           PairT(run.o.stops, run.d.stops, run.n + 1))]
         /\ result' = result
    ELSE IF best.path = NoPath
    THEN /\ run' = Returning
         /\ result' = Error(MsgNoPath, <<run.o.place.name, run.d.place.name>>)
    ELSE /\ run' = [run EXCEPT !.pc = "legs", !.best = best, !.legs = LegsStart(best.path)]
         /\ result' = result

NextPair ==
    /\ run.pc = "bfs"
    /\ BfsDone(run.bfs)
    /\ Paired(Shorter(run.best, [s |-> PairS(run.o.stops, run.d.stops, run.n),
                                 t |-> PairT(run.o.stops, run.d.stops, run.n),
                                 path |-> run.bfs.path]))
    /\ UNCHANGED <<sessions, ctxs, threads, routes, buildings, phase, index, call, probe>>

\* one iteration of a loop of _build_legs
LegsStep ==
    /\ run.pc = "legs"
    /\ run.legs.pc # "done"
    /\ run' = [run EXCEPT !.legs = LegsIter(edge_to_routes, @)]
    /\ UNCHANGED <<sessions, ctxs, threads, routes, buildings, phase, index, call, result, probe>>

\* lines 261-271
Finish ==
    /\ run.pc = "legs"
    /\ run.legs.pc = "done"
    /\ result' = BusRoute(run.o.place, run.d.place, run.best.s, run.best.t,
                          run.best.path, run.legs.legs, "bfs")
    /\ run' = Returning
    /\ UNCHANGED <<sessions, ctxs, threads, routes, buildings, phase, index, call, probe>>

\* the caller has the plan
Return ==
    /\ run.pc = "returned"
    /\ run' = Idle
    /\ UNCHANGED <<sessions, ctxs, threads, routes, buildings, phase, index, call, result, probe>>

InitSteps ==
    /\ routes \in RouteFixtures
    /\ buildings \in BuildingFiles
    /\ InitIndex

Step == BfsStep \/ NextPair \/ LegsStep \/ Finish

NextSteps ==
    \/ Load
    \/ \E o \in Texts, d \in Texts : Begin(o, d)
    \/ BfsStep
    \/ NextPair
    \/ LegsStep
    \/ Finish
    \/ Return
    \/ Forget

\* a call runs on one thread from entry to return without being suspended
SpecSteps == InitSteps /\ [][NextSteps]_vars /\ WF_vars(Step)

(***************************************************************************)
(* _shortest_path_between_stops called directly, over every stop graph of  *)
(* at most MaxEdges edges on four stops.                                   *)
(***************************************************************************)
GraphStops == {<<"C">>, <<"H">>, <<"L">>, <<"Y">>}

StopPairs == {e \in GraphStops \X GraphStops : StrLess(e[1], e[2])}

\* one two-stop route per edge
RECURSIVE RoutesOfEdges(_)
RoutesOfEdges(E) ==
    IF E = {} THEN <<>>
    ELSE <<Route("A", <<(CHOOSE e \in E : TRUE)[1], (CHOOSE e \in E : TRUE)[2]>>)>>
         \o RoutesOfEdges(E \ {CHOOSE e \in E : TRUE})

InitGraph ==
    /\ routes \in {RoutesOfEdges(E) : E \in {F \in SUBSET StopPairs : Cardinality(F) <= MaxEdges}}
    /\ buildings = <<>>
    /\ InitIndex

Searched(start, goal, r) ==
    /\ probe' = [fn |-> "_shortest_path_between_stops", args |-> <<start, goal>>,
                 value |-> r.path]
    /\ stop_graph' = r.graph

Search(start, goal) ==
    /\ phase = "loaded"
    /\ probe = NoProbe
    /\ Searched(start, goal, _shortest_path_between_stops(stop_graph, start, goal))
    /\ UNCHANGED <<sessions, ctxs, threads, routes, buildings, phase, buildings_by_name, alias_to_building_key,
                   route_stop_names, edge_to_routes, building_stop_map, call, result, run>>

NextGraph ==
    \/ Load
    \/ \E start \in GraphStops, goal \in GraphStops : Search(start, goal)
    \/ Forget

SpecGraph == InitGraph /\ [][NextGraph]_vars

-----------------------------------------------------------------------------
(* Calls of _best_bfs_path on graphs of few edges.                         *)

\* the stop lists plan_building_to_building hands to _best_bfs_path: one or
\* two stops, each held once (lines 193-194, 208-216, 250)
StopLists ==
    {<<s>> : s \in GraphStops} \cup {q \in GraphStops \X GraphStops : q[1] # q[2]}

\* every stop of the list is a resolved stop
Resolved(stops) == \A i \in DOMAIN stops : Contains(route_stop_names, stops[i])

InitPairs ==
    /\ routes \in {RoutesOfEdges(E) :
                      E \in {F \in SUBSET StopPairs : Cardinality(F) <= MaxPairEdges}}
    /\ buildings = <<>>
    /\ InitIndex

BestSearched(origin_stops, dest_stops, r) ==
    /\ probe' = [fn |-> "_best_bfs_path", args |-> <<origin_stops, dest_stops>>,
                 value |-> r.best]
    /\ stop_graph' = r.graph

\* one call of _best_bfs_path
SearchBest(origin_stops, dest_stops) ==
    /\ phase = "loaded"
    /\ probe = NoProbe
    /\ Resolved(origin_stops)
    /\ Resolved(dest_stops)
    /\ BestSearched(origin_stops, dest_stops,
                    _best_bfs_path(stop_graph, origin_stops, dest_stops))
    /\ UNCHANGED <<sessions, ctxs, threads, routes, buildings, phase, buildings_by_name, alias_to_building_key,
                   route_stop_names, edge_to_routes, building_stop_map, call, result, run>>

NextPairs ==
    \/ Load
    \/ \E origin_stops \in StopLists, dest_stops \in StopLists :
           SearchBest(origin_stops, dest_stops)
    \/ Forget

SpecPairs == InitPairs /\ [][NextPairs]_vars

(***************************************************************************)
(* _build_legs called directly, over every way lines "A" and "B" can serve *)
(* the three edges of a line of four stops, and every stop list of at most *)
(* MaxPathLen stops.                                                       *)
(***************************************************************************)
LegLineStops == <<<<"H">>, <<"Y">>, <<"C">>, <<"L">>>>
LegIds == <<"A", "B">>

\* the two-stop routes of edge n: one for each line that serves it
EdgeRoutes(n, served) ==
    [k \in 1..Len(SelectSeq(LegIds, LAMBDA id : id \in served)) |->
        Route(SelectSeq(LegIds, LAMBDA id : id \in served)[k],
              <<LegLineStops[n], LegLineStops[n + 1]>>)]

InitLegs ==
    /\ routes \in {EdgeRoutes(1, f[1]) \o EdgeRoutes(2, f[2]) \o EdgeRoutes(3, f[3]) :
                      f \in [1..3 -> SUBSET SeqToSet(LegIds)]}
    /\ buildings = <<>>
    /\ InitIndex

Compress(path) ==
    /\ phase = "loaded"
    /\ probe = NoProbe
    /\ probe' = [fn |-> "_build_legs", args |-> <<path>>,
                 value |-> _build_legs(edge_to_routes, path)]
    /\ UNCHANGED <<sessions, ctxs, threads, routes, buildings, phase, index, call, result, run>>

NextLegs ==
    \/ Load
    \/ \E path \in SeqsUpTo(SeqToSet(LegLineStops), MaxPathLen) : Compress(path)
    \/ Forget

SpecLegs == InitLegs /\ [][NextLegs]_vars

(***************************************************************************)
(* What the planner is said to do, stated over the call held in `call` and *)
(* the plan held in `result`.                                              *)
(***************************************************************************)
\* a call has just returned: `call` and `result` hold it
Called == phase = "loaded" /\ call # NoCall /\ probe = NoProbe

\* the two places of the call held, as _resolve_place gives them
Origin == PlaceOf(call[1])
Dest == PlaceOf(call[2])

StopSet(p) == SeqToSet(p.stops)

BothHaveStops(o, d) == StopSet(o) # {} /\ StopSet(d) # {}

\* the first position of stop in stops
FirstAt(stops, stop) ==
    CHOOSE i \in DOMAIN stops :
        stops[i] = stop /\ \A k \in 1..(i - 1) : stops[k] # stop

\* the stretch of a route between the first occurrences of two of its stops,
\* read from s to t
Between(stops, s, t) ==
    IF FirstAt(stops, s) <= FirstAt(stops, t)
    THEN SubSeq(stops, FirstAt(stops, s), FirstAt(stops, t))
    ELSE Reverse(SubSeq(stops, FirstAt(stops, t), FirstAt(stops, s)))

RouteHasBoth(r, s, t) == s \in SeqToSet(StopsOf(r)) /\ t \in SeqToSet(StopsOf(r))

DirectExists(o, d) ==
    \E s \in StopSet(o), t \in StopSet(d), n \in DOMAIN routes :
        RouteHasBoth(routes[n], s, t)

\* the plan is one leg along route r from origin_stop to dest_stop
SingleLegOn(r) ==
    /\ RouteHasBoth(r, result.origin_stop, result.dest_stop)
    /\ result.legs[1].route_id = r.route_id
    /\ result.stop_path = Between(StopsOf(r), result.origin_stop, result.dest_stop)
    /\ result.legs[1].stops = result.stop_path
    /\ result.legs[1].from_stop = result.origin_stop
    /\ result.legs[1].to_stop = result.dest_stop

\* C1 (direct-route priority): when both places have stops and some route
\* holds a stop of the origin and a stop of the destination, the plan is a
\* bus_route of exactly one leg, riding one route that holds both chosen
\* stops, whatever the breadth-first search would have found.
C1_DirectRoutePriority ==
    Called =>
        LET o == Origin
            d == Dest
        IN (BothHaveStops(o, d) /\ DirectExists(o, d)) =>
               /\ result.type = "bus_route"
               /\ result.via = "direct"
               /\ Len(result.legs) = 1
               /\ result.origin_stop \in StopSet(o)
               /\ result.dest_stop \in StopSet(d)
               /\ \E n \in DOMAIN routes : SingleLegOn(routes[n])

\* C1 witness: a direct plan was returned although the breadth-first search
\* joins the same two stops with fewer stops
C1_DirectLongerThanBfs ==
    /\ Called
    /\ BothHaveStops(Origin, Dest) /\ DirectExists(Origin, Dest)
    /\ result.via = "direct"
    /\ _shortest_path_between_stops(stop_graph, result.origin_stop,
                                    result.dest_stop).path # NoPath
    /\ Len(_shortest_path_between_stops(stop_graph, result.origin_stop,
                                        result.dest_stop).path)
         < Len(result.stop_path)

SamePlaceOneStop(o, d) == o = d /\ Len(o.stops) = 1

\* C2 (same-endpoint plan): when origin and destination resolve to the same
\* place and that place has the single stop s, the plan is a bus_route whose
\* stop_path is [s] and whose legs are empty.
C2_SameEndpointPlan ==
    (Called /\ SamePlaceOneStop(Origin, Dest)) =>
        /\ result.type = "bus_route"
        /\ result.stop_path = Origin.stops
        /\ result.legs = <<>>

\* the plan the same call returns when the sets of the two indexes are
\* iterated in the orders of graph and etr
PlanUnder(graph, etr) ==
    plan_building_to_building(routes, buildings_by_name, alias_to_building_key,
                              building_stop_map, route_stop_names, graph, etr,
                              call[1], call[2]).result

\* C5 (determinism): for fixed route and building files and fixed origin and
\* destination texts the plan is the same in every execution: whatever
\* order the adjacency sets of stop_graph and the route-id sets of
\* edge_to_routes are iterated in, the call returns the plan held.
C5_Determinism ==
    Called =>
        \A graph \in Orderings(GraphSets(routes).graph),
           etr \in Orderings(GraphSets(routes).edges) :
            PlanUnder(graph, etr) = result

AdjSet(a) == IF a \in DOMAIN stop_graph THEN SeqToSet(stop_graph[a]) ELSE {}
EdgeSet(a, b) == SeqToSet(EdgeGet(edge_to_routes, a, b))

\* every stop name the loaded indexes mention
IndexedStops ==
    DOMAIN stop_graph \cup SeqToSet(route_stop_names)
    \cup UNION {SeqToSet(stop_graph[a]) : a \in DOMAIN stop_graph}
    \cup UNION {{e[1], e[2]} : e \in DOMAIN edge_to_routes}

\* C6 (symmetry): once loaded, for all stops a and b the routes of edge
\* (a, b) are the routes of edge (b, a), and b is adjacent to a exactly when
\* a is adjacent to b.
C6_Symmetry ==
    phase = "loaded" =>
        \A a \in IndexedStops, b \in IndexedStops :
            /\ EdgeSet(a, b) = EdgeSet(b, a)
            /\ (<<a, b>> \in DOMAIN edge_to_routes <=> <<b, a>> \in DOMAIN edge_to_routes)
            /\ (b \in AdjSet(a) <=> a \in AdjSet(b))

\* C6 witness: a loaded index with an edge between two different stops that
\* two routes serve
C6_SharedEdgeLoaded ==
    /\ phase = "loaded"
    /\ \E a \in IndexedStops, b \in IndexedStops :
           a # b /\ b \in AdjSet(a) /\ Cardinality(EdgeSet(a, b)) = 2

\* C8 (read-only queries): once the indexes are loaded no call of
\* plan_building_to_building or describe_plan, and no sequence of them,
\* changes stop_graph, edge_to_routes, route_stop_names, buildings_by_name,
\* alias_to_building_key or building_stop_map; in particular no key is added
\* by looking up a stop or an edge that the map does not hold.
C8_ReadOnlyQueries == [][phase = "loaded" => index' = index]_vars

\* C8 witness: a plan was returned by a search that met a stop which is not a
\* key of stop_graph
C8_SearchedAbsentStop ==
    /\ Called
    /\ BothHaveStops(Origin, Dest)
    /\ result.type = "error"
    /\ \E s \in StopSet(Origin) \cup StopSet(Dest) : s \notin DOMAIN stop_graph

AsBuilding(name) == resolve_building(buildings_by_name, alias_to_building_key, name)
AsStop(name) == resolve_stop_name(route_stop_names, name)

\* what must be returned for two texts that resolve as the buildings bo and
\* bd or, failing that, as the stops so and sd
Precedence(bo, so, bd, sd) ==
    IF bo = NoBuilding /\ so = NoneT THEN result = Error(MsgNotFound, <<call[1]>>)
    ELSE IF bd = NoBuilding /\ sd = NoneT THEN result = Error(MsgNotFound, <<call[2]>>)
    ELSE IF bo # NoBuilding /\ get_building_stops(building_stop_map, bo) = <<>>
         THEN result = Error(MsgNoStops, <<bo.name>>)
    ELSE IF bd # NoBuilding /\ get_building_stops(building_stop_map, bd) = <<>>
         THEN result = Error(MsgNoStops, <<bd.name>>)
    ELSE result.type = "bus_route" \/ result.message[1] = MsgNoPath

\* C9 (error precedence): the origin resolving neither as a building nor as
\* a stop is reported first, then the destination resolving as neither,
\* then the origin place having no stops, then the destination place having
\* none; each is an error and no bus_route, and without any of the four the
\* call goes on to the search.
C9_ErrorPrecedence ==
    Called =>
        LET bo == AsBuilding(call[1])
            so == AsStop(call[1])
            bd == AsBuilding(call[2])
            sd == AsStop(call[2])
        IN Precedence(bo, so, bd, sd)

\* C9 witness: the origin is a building without stops and the destination
\* does not resolve, and the destination is the one reported
C9_TwoErrorsAtOnce ==
    /\ Called
    /\ AsBuilding(call[1]) # NoBuilding
    /\ get_building_stops(building_stop_map, AsBuilding(call[1])) = <<>>
    /\ AsBuilding(call[2]) = NoBuilding /\ AsStop(call[2]) = NoneT
    /\ result = Error(MsgNotFound, <<call[2]>>)

\* the stops joined to the stops of S by a path of stop_graph
RECURSIVE Reach(_)
Reach(S) ==
    IF UNION {AdjSet(a) : a \in S} \subseteq S THEN S
    ELSE Reach(S \cup UNION {AdjSet(a) : a \in S})

Joined(s, t) == s \in DOMAIN stop_graph /\ t \in Reach({s})

\* no route holds a stop of each place and no path of stop_graph joins a
\* stop of one to a stop of the other
Unconnected(o, d) ==
    /\ ~DirectExists(o, d)
    /\ ~\E s \in StopSet(o), t \in StopSet(d) : Joined(s, t)

\* C10 (no path found): when both places have stops, the call returns the
\* no-path error exactly when no route holds a stop of each place and no
\* path of stop_graph joins a stop of the origin to a stop of the
\* destination; in every other such case it returns a bus_route.
C10_NoPathFound ==
    Called =>
        LET o == Origin
            d == Dest
        IN BothHaveStops(o, d) =>
               IF Unconnected(o, d)
               THEN result = Error(MsgNoPath, <<o.place.name, d.place.name>>)
               ELSE result.type = "bus_route"

\* C10 witness: a no-path error between two places that both have stops in
\* the graph
C10_Unconnected ==
    /\ Called
    /\ BothHaveStops(Origin, Dest)
    /\ result.type = "error"
    /\ StopSet(Origin) \subseteq DOMAIN stop_graph
    /\ StopSet(Dest) \subseteq DOMAIN stop_graph

\* the number of hops of the shortest path of stop_graph from a stop of S to
\* t, n hops being spent already; t is joined to S
RECURSIVE HopsFrom(_, _, _)
HopsFrom(S, t, n) ==
    IF t \in S THEN n
    ELSE HopsFrom(S \cup UNION {AdjSet(a) : a \in S}, t, n + 1)

\* path is a path of stop_graph from start to goal
IsPath(path, start, goal) ==
    /\ path # <<>>
    /\ path[1] = start
    /\ Last(path) = goal
    /\ \A k \in 1..(Len(path) - 1) : path[k + 1] \in AdjSet(path[k])

SearchedNodes ==
    /\ probe.fn = "_shortest_path_between_stops"
    /\ probe.args[1] \in DOMAIN stop_graph
    /\ probe.args[2] \in DOMAIN stop_graph

\* C3 (BFS optimality): for start and goal both nodes of the stop graph, a
\* returned path begins at start, ends at goal, steps only between adjacent
\* stops and has no more hops than any path from start to goal, and None is
\* returned only when no path joins them.
C3_BfsOptimality ==
    SearchedNodes =>
        IF probe.value # NoPath
        THEN /\ IsPath(probe.value, probe.args[1], probe.args[2])
             /\ Len(probe.value) - 1 = HopsFrom({probe.args[1]}, probe.args[2], 0)
        ELSE probe.args[2] \notin Reach({probe.args[1]})

\* C3 witness: a search returned the one-hop path between two stops that a
\* path of three hops joins as well
C3_ShorterOfTwoFound ==
    /\ SearchedNodes
    /\ Len(probe.value) = 2
    /\ \E a \in DOMAIN stop_graph, b \in DOMAIN stop_graph :
           /\ Cardinality({a, b, probe.args[1], probe.args[2]}) = 4
           /\ IsPath(<<probe.args[1], a, b, probe.args[2]>>, probe.args[1], probe.args[2])

\* the legs' stop lists put end to end, the stop shared by two legs in a row
\* taken once
RECURSIVE Glue(_)
Glue(legs) ==
    IF legs = <<>> THEN <<>>
    ELSE IF Len(legs) = 1 THEN legs[1].stops
    ELSE legs[1].stops \o Tail(Glue(Tail(legs)))

\* C4 (leg coverage): for a stop path of two stops or more, _build_legs
\* returns at least one leg, the first leg starts at the first stop, the last
\* leg ends at the last stop, each leg ends where the next starts, every leg
\* spans at least one edge, and the legs' stop lists put end to end give the
\* path again, so that every edge lies in exactly one leg.
C4_LegCoverage ==
    (probe.fn = "_build_legs" /\ Len(probe.args[1]) >= 2) =>
        /\ probe.value # <<>>
        /\ probe.value[1].from_stop = probe.args[1][1]
        /\ Last(probe.value).to_stop = Last(probe.args[1])
        /\ \A k \in 1..(Len(probe.value) - 1) :
               probe.value[k].to_stop = probe.value[k + 1].from_stop
        /\ \A k \in DOMAIN probe.value :
               /\ Len(probe.value[k].stops) >= 2
               /\ probe.value[k].from_stop = probe.value[k].stops[1]
               /\ probe.value[k].to_stop = Last(probe.value[k].stops)
        /\ Glue(probe.value) = probe.args[1]

\* C4 witness: a path of three stops was split into two legs
C4_TwoLegs ==
    /\ probe.fn = "_build_legs"
    /\ Len(probe.args[1]) = 3
    /\ Len(probe.value) = 2

Running == run.pc \in {"bfs", "legs"}

\* C7 (termination): every call that has entered the search returns; while
\* the search runs no stop has been put on the queue twice; and each time
\* _build_legs closes a leg its outer index has grown.
C7_Termination ==
    /\ Running ~> (run.pc = "returned")
    /\ [](run.pc = "bfs" => ~run.bfs.dup)
    /\ [][(run.pc = "legs" /\ run.legs.pc = "inner" /\ run'.pc = "legs"
           /\ run'.legs.pc = "outer") => run'.legs.i > run.legs.i]_vars

\* C7 witness: a call went through the search and the leg loop and returned
\* a plan of two legs
C7_SteppedCallReturned ==
    /\ run.pc = "returned"
    /\ result.via = "bfs"
    /\ Len(result.legs) = 2

-----------------------------------------------------------------------------
(* The presenter.                                                          *)

\* the described plan and the lines returned for it
Described == phase = "loaded" /\ probe.fn = "describe_plan"

-----------------------------------------------------------------------------
(* An index built from no routes.                                          *)

NoRoutes == routes = <<>>

\* C12 as stated (empty route list): with an index built from zero routes
\* every call returns an error whose reason is NoPathFound or
\* OriginHasNoStops / DestHasNoStops, never a bus_route.
C12_OnlyNoPathOrNoStops ==
    (Called /\ NoRoutes) =>
        /\ result.type = "error"
        /\ result.message[1] \in {MsgNoPath, MsgNoStops}

\* C12 (empty route list, amended): with an index built from zero routes no
\* stop name resolves and every building has an empty stop list, so every
\* call returns an error: the not-found error when the origin or the
\* destination text resolves to no building, the no-stops error (for the
\* origin first) when both resolve; never a bus_route, never the no-path
\* error.
C12_GracefulDegradation ==
    (Called /\ NoRoutes) =>
        LET o == Origin
            d == Dest
        IN  /\ route_stop_names = <<>>
            /\ o.stops = <<>> /\ d.stops = <<>>
            /\ result =
                 IF o.place = NoBuilding THEN Error(MsgNotFound, <<call[1]>>)
                 ELSE IF d.place = NoBuilding THEN Error(MsgNotFound, <<call[2]>>)
                 ELSE Error(MsgNoStops, <<o.place.name>>)

\* C12 witness: without routes a call between two known buildings returned
\* the no-stops error
C12_BuildingWithoutStops ==
    /\ Called /\ NoRoutes
    /\ Origin.place # NoBuilding /\ Dest.place # NoBuilding
    /\ Origin.place # Dest.place
    /\ result.type = "error"
    /\ result.message[1] = MsgNoStops

-----------------------------------------------------------------------------
(* The precomputed stops of a building.                                    *)

\* the raw labels of the building under key, each resolved on the loaded index
ResolvedLabels(key) ==
    [i \in DOMAIN buildings_by_name[key].bus_stops |->
        resolve_stop_name(route_stop_names, buildings_by_name[key].bus_stops[i])]

\* the positions of r holding a resolved stop for the first time
FirstSeen(r) == {i \in DOMAIN r : r[i] # NoneT /\ \A j \in 1..(i - 1) : r[j] # r[i]}

\* C13 (building stop resolution): for every building, building_stop_map
\* holds its raw bus_stops labels resolved by resolve_stop_name in label
\* order, unresolved labels dropped and only the first occurrence of each
\* resolved stop kept; the sequence has no duplicates, every element is in
\* route_stop_names, and get_building_stops returns that sequence.
C13_BuildingStopResolution ==
    phase = "loaded" =>
        /\ DOMAIN building_stop_map = DOMAIN buildings_by_name
        /\ \A key \in DOMAIN buildings_by_name :
               LET r == ResolvedLabels(key)
                   stops == building_stop_map[key]
               IN  /\ Len(stops) = Cardinality(FirstSeen(r))
                   /\ \A k \in DOMAIN stops :
                          \E i \in FirstSeen(r) :
                              /\ stops[k] = r[i]
                              /\ Cardinality({j \in FirstSeen(r) : j < i}) = k - 1
                   /\ \A k \in DOMAIN stops, m \in DOMAIN stops :
                          stops[k] = stops[m] => k = m
                   /\ \A k \in DOMAIN stops : Contains(route_stop_names, stops[k])
                   /\ get_building_stops(building_stop_map, buildings_by_name[key]) = stops

\* C13 witness: a building whose two labels resolve to one stop, held once
C13_TwoLabelsOneStop ==
    /\ phase = "loaded"
    /\ \E key \in DOMAIN buildings_by_name :
           /\ Len(buildings_by_name[key].bus_stops) = 2
           /\ ResolvedLabels(key)[1] # NoneT
           /\ ResolvedLabels(key)[1] = ResolvedLabels(key)[2]
           /\ Len(building_stop_map[key]) = 1

-----------------------------------------------------------------------------
(* _build_legs on the runs of one chain of stops H - Y - C - L whose edges *)
(* are each served by line "A", by a route record without route_id, by     *)
(* both or by no route at all.                                             *)

LineIds == <<"A", NoneId>>

\* the two-stop route records of edge n of the chain
LineRoutes(n, served) ==
    [k \in 1..Len(SelectSeq(LineIds, LAMBDA id : id \in served)) |->
        Route(SelectSeq(LineIds, LAMBDA id : id \in served)[k],
              <<LegLineStops[n], LegLineStops[n + 1]>>)]

InitLine ==
    /\ routes \in {LineRoutes(1, f[1]) \o LineRoutes(2, f[2]) \o LineRoutes(3, f[3]) :
                      f \in [1..3 -> SUBSET SeqToSet(LineIds)]}
    /\ buildings = <<>>
    /\ InitIndex

\* the stretches of the chain, in both directions
LineRuns ==
    {Slice(LegLineStops, a, b) : a \in 1..Len(LegLineStops), b \in 1..Len(LegLineStops)}
    \cup {Reverse(Slice(LegLineStops, a, b)) :
            a \in 1..Len(LegLineStops), b \in 1..Len(LegLineStops)}

NextLine ==
    \/ Load
    \/ \E path \in LineRuns : Compress(path)
    \/ Forget

SpecLine == InitLine /\ [][NextLine]_vars

\* no route record serves any edge of the leg
Uncovered(leg) ==
    \A k \in 1..(Len(leg.stops) - 1) :
        EdgeGet(edge_to_routes, leg.stops[k], leg.stops[k + 1]) = <<>>

\* C14 (distinct consecutive legs): any two consecutive legs returned by
\* _build_legs have different route_id values, unless one of them has an
\* unset route_id because no route covers any of its edges.
C14_DistinctConsecutiveLegs ==
    probe.fn = "_build_legs" =>
        \A k \in 1..(Len(probe.value) - 1) :
            \/ probe.value[k].route_id # probe.value[k + 1].route_id
            \/ probe.value[k].route_id = NoneId /\ Uncovered(probe.value[k])
            \/ probe.value[k + 1].route_id = NoneId /\ Uncovered(probe.value[k + 1])

-----------------------------------------------------------------------------
(* The legs of a fallback path.                                            *)

\* the route ids serving the edge from a to b
EdgeIds(a, b) == SeqToSet(EdgeGet(edge_to_routes, a, b))

\* one route id serves every edge of path between positions lo and hi
OneRouteServes(path, lo, hi) ==
    \E id \in EdgeIds(path[lo], path[lo + 1]) :
        \A k \in lo..(hi - 1) : id \in EdgeIds(path[k], path[k + 1])

\* cutting path at the inner positions in cuts leaves segments that are each
\* served by one route id
CutServed(path, cuts) ==
    LET ends == cuts \cup {1, Len(path)}
    IN \A lo \in ends, hi \in ends :
           (lo < hi /\ ~\E m \in ends : lo < m /\ m < hi) => OneRouteServes(path, lo, hi)

\* n is the least number of served segments path can be cut into
LeastSegments(path, n) ==
    /\ \E cuts \in SUBSET (2..(Len(path) - 1)) :
           CutServed(path, cuts) /\ Cardinality(cuts) + 1 = n
    /\ \A cuts \in SUBSET (2..(Len(path) - 1)) :
           CutServed(path, cuts) => Cardinality(cuts) + 1 >= n

\* C15 (leg minimality): for a stop path chosen by the fallback search, the
\* number of legs is the least number of contiguous segments the path can be
\* cut into so that one route id serves every edge of a segment.
C15_LegMinimality ==
    (Called /\ result.type = "bus_route" /\ result.via = "bfs"
        /\ Len(result.stop_path) >= 2) =>
        LeastSegments(result.stop_path, Len(result.legs))

-----------------------------------------------------------------------------
(* The direct candidates of a call.                                        *)

\* a direct candidate: the a-th origin stop, the b-th destination stop and the
\* n-th route record, which holds both stops
IsCandidate(o, d, a, b, n) ==
    /\ a \in DOMAIN o.stops /\ b \in DOMAIN d.stops /\ n \in DOMAIN routes
    /\ RouteHasBoth(routes[n], o.stops[a], d.stops[b])

\* the stops of candidate (a, b, n)
CandidatePath(o, d, a, b, n) == Between(StopsOf(routes[n]), o.stops[a], d.stops[b])

\* (a, b, n) comes before (a2, b2, n2): origin stops outermost, then
\* destination stops, then route-list order
MetBefore(a, b, n, a2, b2, n2) ==
    \/ a < a2
    \/ a = a2 /\ b < b2
    \/ a = a2 /\ b = b2 /\ n < n2

\* the plan is the direct plan of candidate (a, b, n)
ChoseCandidate(o, d, a, b, n) ==
    /\ result.origin_stop = o.stops[a]
    /\ result.dest_stop = d.stops[b]
    /\ result.stop_path = CandidatePath(o, d, a, b, n)
    /\ Len(result.legs) = 1
    /\ result.legs[1].route_id = routes[n].route_id
    /\ result.legs[1].stops = CandidatePath(o, d, a, b, n)

\* candidate (a, b, n) has the fewest stops and is the first met among those
Preferred(o, d, a, b, n) ==
    \A a2 \in DOMAIN o.stops, b2 \in DOMAIN d.stops, n2 \in DOMAIN routes :
        IsCandidate(o, d, a2, b2, n2) =>
            \/ Len(CandidatePath(o, d, a2, b2, n2)) > Len(CandidatePath(o, d, a, b, n))
            \/ /\ Len(CandidatePath(o, d, a2, b2, n2)) = Len(CandidatePath(o, d, a, b, n))
               /\ ~MetBefore(a2, b2, n2, a, b, n)

\* C16 (direct candidate selection): with origin stops in the outer loop,
\* destination stops in the inner loop and routes in route-list order, the
\* candidate of a route is the slice of its stop list between the first
\* occurrences of the two stops (reversed when the destination comes first);
\* the plan returned by the direct search is that of a candidate with the
\* fewest stops and, among those, of the first one met.
C16_DirectSelection ==
    (Called /\ result.type = "bus_route" /\ result.via = "direct") =>
        LET o == Origin
            d == Dest
        IN \E a \in DOMAIN o.stops, b \in DOMAIN d.stops, n \in DOMAIN routes :
               /\ IsCandidate(o, d, a, b, n)
               /\ ChoseCandidate(o, d, a, b, n)
               /\ Preferred(o, d, a, b, n)

\* C16 witness: the direct plan follows one route although a later route
\* record of another line offers a candidate with as few stops, and a
\* candidate met earlier has more stops
C16_TieAndLongerEarlier ==
    /\ Called /\ result.type = "bus_route" /\ result.via = "direct"
    /\ \E a \in DOMAIN Origin.stops, b \in DOMAIN Dest.stops, n \in DOMAIN routes :
           /\ IsCandidate(Origin, Dest, a, b, n)
           /\ ChoseCandidate(Origin, Dest, a, b, n)
           /\ \E a2 \in DOMAIN Origin.stops, b2 \in DOMAIN Dest.stops, n2 \in DOMAIN routes :
                  /\ IsCandidate(Origin, Dest, a2, b2, n2)
                  /\ MetBefore(a, b, n, a2, b2, n2)
                  /\ routes[n2].route_id # routes[n].route_id
                  /\ Len(CandidatePath(Origin, Dest, a2, b2, n2))
                       = Len(CandidatePath(Origin, Dest, a, b, n))
           /\ \E a3 \in DOMAIN Origin.stops, b3 \in DOMAIN Dest.stops, n3 \in DOMAIN routes :
                  /\ IsCandidate(Origin, Dest, a3, b3, n3)
                  /\ MetBefore(a3, b3, n3, a, b, n)

-----------------------------------------------------------------------------
(* The fallback search over the pairs of stops.                            *)

\* the hops of a shortest path of stop_graph from s to t, joined by a path
PairHops(s, t) == HopsFrom({s}, t, 0)

\* C17 (fallback selection across pairs): _best_bfs_path returns (s, t, path)
\* where s is an origin stop, t a destination stop and path a shortest path
\* of the graph from s to t; no other pair has a shorter path; among pairs
\* with equally short paths it is the first in origin-outer,
\* destination-inner order; it returns None exactly when no pair is joined
\* by a path.
C17_FallbackSelection ==
    probe.fn = "_best_bfs_path" =>
        LET os == probe.args[1]
            ds == probe.args[2]
            best == probe.value
        IN  IF \A a \in DOMAIN os, b \in DOMAIN ds : ~Joined(os[a], ds[b])
            THEN best = NoBest
            ELSE \E a \in DOMAIN os, b \in DOMAIN ds :
                   /\ best.s = os[a] /\ best.t = ds[b]
                   /\ Joined(os[a], ds[b])
                   /\ IsPath(best.path, os[a], ds[b])
                   /\ Len(best.path) - 1 = PairHops(os[a], ds[b])
                   /\ \A a2 \in DOMAIN os, b2 \in DOMAIN ds :
                          Joined(os[a2], ds[b2]) =>
                              \/ PairHops(os[a2], ds[b2]) > PairHops(os[a], ds[b])
                              \/ /\ PairHops(os[a2], ds[b2]) = PairHops(os[a], ds[b])
                                 /\ ~(a2 < a \/ (a2 = a /\ b2 < b))

\* C17 witness: the pair returned is the second pair, the first pair has a
\* longer path and the last pair has a path as short
C17_LaterShorterAndTie ==
    /\ probe.fn = "_best_bfs_path"
    /\ Len(probe.args[1]) = 2 /\ Len(probe.args[2]) = 2
    /\ probe.value # NoBest
    /\ Joined(probe.args[1][1], probe.args[2][1])
    /\ PairHops(probe.args[1][1], probe.args[2][1]) > Len(probe.value.path) - 1
    /\ probe.value.s = probe.args[1][1]
    /\ probe.value.t = probe.args[2][2]
    /\ Joined(probe.args[1][2], probe.args[2][2])
    /\ PairHops(probe.args[1][2], probe.args[2][2]) = Len(probe.value.path) - 1

-----------------------------------------------------------------------------
(* The search from or to a stop that is on no edge.                        *)

\* the nodes of the stop graph built from the route list
GraphNodes == DOMAIN GraphSets(routes).graph

\* C18 (BFS absent endpoint): _shortest_path_between_stops returns None
\* whenever start or goal is not a node of the stop graph, also when start
\* equals goal.
C18_AbsentEndpoint ==
    (probe.fn = "_shortest_path_between_stops"
        /\ (probe.args[1] \notin GraphNodes \/ probe.args[2] \notin GraphNodes)) =>
        probe.value = NoPath

-----------------------------------------------------------------------------
(* Calls of the lookups _resolve_place and resolve_stop_name.              *)

\* the texts looked up: those of the planning calls, a misspelt building
\* name, and stop names with blanks around them or in another case
PlaceTexts == Texts \cup {<<"y", "c">>, <<" ", "C">>, <<"y", " ">>, <<"L">>}

\* one call of _resolve_place
Resolve(name) ==
    /\ phase = "loaded"
    /\ probe = NoProbe
    /\ probe' = [fn |-> "_resolve_place", args |-> <<name>>, value |-> PlaceOf(name)]
    /\ UNCHANGED <<sessions, ctxs, threads, routes, buildings, phase, index, call, result, run>>

\* one call of resolve_stop_name
ResolveStop(label) ==
    /\ phase = "loaded"
    /\ probe = NoProbe
    /\ probe' = [fn |-> "resolve_stop_name", args |-> <<label>>,
                 value |-> resolve_stop_name(route_stop_names, label)]
    /\ UNCHANGED <<sessions, ctxs, threads, routes, buildings, phase, index, call, result, run>>

NextPlaces ==
    \/ Load
    \/ \E name \in PlaceTexts : Resolve(name)
    \/ \E label \in PlaceTexts : ResolveStop(label)
    \/ Forget

\* a route list whose stop names differ in case only
CaseFixtures == {<<Route("A", <<<<"H">>, <<"h">>>>)>>}

InitPlaces ==
    /\ routes \in RouteFiles \cup CaseFixtures
    /\ buildings \in BuildingFiles
    /\ InitIndex

SpecPlaces == InitPlaces /\ [][NextPlaces]_vars

\* the building a text names: under its normalised key, else through the
\* alias table, else the closest key when close enough
NamedBuilding(name) ==
    LET key == _norm(name)
        close == GetCloseMatch(key, Sorted(DOMAIN buildings_by_name), BuildingCutoffTenths)
    IN IF key \in DOMAIN buildings_by_name THEN buildings_by_name[key]
       ELSE IF key \in DOMAIN alias_to_building_key
               /\ alias_to_building_key[key] \in DOMAIN buildings_by_name
       THEN buildings_by_name[alias_to_building_key[key]]
       ELSE IF close # NoneT THEN buildings_by_name[close]
       ELSE NoBuilding

\* C19 (place resolution order): empty text resolves to nothing; a text that
\* names a building by exact, alias or approximate match resolves to that
\* building with its precomputed stop list, empty or not; only a text that
\* names no building is resolved as a stop name, and then gives a synthetic
\* place named after the canonical stop with that one stop as its list.
C19_PlaceResolutionOrder ==
    probe.fn = "_resolve_place" =>
        LET name == probe.args[1]
            b == NamedBuilding(name)
            stop == resolve_stop_name(route_stop_names, name)
        IN  IF name = <<>> THEN probe.value = [place |-> NoBuilding, stops |-> <<>>]
            ELSE IF b # NoBuilding
            THEN /\ probe.value.place = b
                 /\ probe.value.stops = building_stop_map[_norm(b.name)]
            ELSE IF stop # NoneT
            THEN /\ probe.value.place = [name |-> stop, campus |-> NoneId,
                                         bus_stops |-> <<stop>>]
                 /\ probe.value.stops = <<stop>>
            ELSE probe.value = [place |-> NoBuilding, stops |-> <<>>]

\* C19 witness: a text that is the name of a stop and the name of a building
\* without stops resolved to the building
C19_BuildingWithoutStopsWins ==
    /\ probe.fn = "_resolve_place"
    /\ resolve_stop_name(route_stop_names, probe.args[1]) # NoneT
    /\ probe.value.place # NoBuilding
    /\ probe.value.place.campus # NoneId
    /\ probe.value.stops = <<>>

\* C20 (resolved stops are graph nodes): every value other than None that
\* resolve_stop_name returns is a member of route_stop_names and a node of
\* the stop graph.
C20_ResolvedStopsAreNodes ==
    (probe.fn = "resolve_stop_name" /\ probe.value # NoneT) =>
        /\ Contains(route_stop_names, probe.value)
        /\ probe.value \in DOMAIN stop_graph

-----------------------------------------------------------------------------
(* Calls of _norm on short texts of letters, blanks and punctuation.       *)

NormChars == {"a", "H", " ", "@"}

NormTexts == SeqsUpTo(NormChars, MaxTextLen)

InitNorm ==
    /\ routes = <<>>
    /\ buildings = <<>>
    /\ InitIndex

\* one call of _norm
Normalise(text) ==
    /\ probe = NoProbe
    /\ probe' = [fn |-> "_norm", args |-> <<text>>, value |-> _norm(text)]
    /\ UNCHANGED <<sessions, ctxs, threads, routes, buildings, phase, index, call, result, run>>

NextNorm ==
    \/ Load
    \/ \E text \in NormTexts : Normalise(text)
    \/ Forget

SpecNorm == InitNorm /\ [][NextNorm]_vars

\* every run of blanks of t made one blank
RECURSIVE Collapse(_)
Collapse(t) ==
    IF Len(t) < 2 THEN t
    ELSE IF isspace(t[1]) /\ isspace(t[2]) THEN Collapse(Tail(t))
    ELSE <<t[1]>> \o Collapse(Tail(t))

\* the normalised key as specified: lower case, punctuation removed, runs of
\* blanks collapsed, both ends trimmed
Key(t) == strip(Collapse(lower(SelectSeq(t, LAMBDA ch : isalnum(ch) \/ isspace(ch)))))

\* C21 (name normalisation): _norm lower-cases the text, removes every
\* character that is neither alphanumeric nor whitespace, collapses each run
\* of whitespace to one space and trims both ends; so two texts that differ
\* only in case, punctuation or amount of whitespace have the same key, and
\* _norm(_norm(t)) = _norm(t).
C21_Normalisation ==
    probe.fn = "_norm" =>
        /\ probe.value = Key(probe.args[1])
        /\ \A u \in NormTexts : Key(u) = Key(probe.args[1]) => _norm(u) = probe.value
        /\ _norm(probe.value) = probe.value

-----------------------------------------------------------------------------
(* resolve_stop_name on its own answers.                                   *)

\* C22 (stop resolution is idempotent and exact-first): when
\* resolve_stop_name(x) returns a stop s, resolve_stop_name(s) returns s; and
\* when x is a canonical stop name up to case (and blanks around it), a stop
\* with that name up to case is returned.
C22_StopResolutionIdempotent ==
    probe.fn = "resolve_stop_name" =>
        /\ probe.value # NoneT =>
               resolve_stop_name(route_stop_names, probe.value) = probe.value
        /\ (\E i \in DOMAIN route_stop_names :
                lower(route_stop_names[i]) = lower(strip(probe.args[1]))) =>
               /\ probe.value # NoneT
               /\ lower(probe.value) = lower(strip(probe.args[1]))

-----------------------------------------------------------------------------
(* The ends of a returned plan.                                            *)

\* C23 (endpoint consistency): in every bus_route result stop_path is not
\* empty, starts at origin_stop and ends at dest_stop; origin_stop is one of
\* the origin place's stops and dest_stop one of the destination place's;
\* and when legs is not empty the first leg leaves from origin_stop and the
\* last leg arrives at dest_stop.
C23_EndpointConsistency ==
    (Called /\ result.type = "bus_route") =>
        /\ result.stop_path # <<>>
        /\ result.stop_path[1] = result.origin_stop
        /\ result.stop_path[Len(result.stop_path)] = result.dest_stop
        /\ result.origin_stop \in StopSet(Origin)
        /\ result.dest_stop \in StopSet(Dest)
        /\ result.legs # <<>> =>
               /\ result.legs[1].from_stop = result.origin_stop
               /\ result.legs[Len(result.legs)].to_stop = result.dest_stop

\* C23 witness: a direct plan that runs against the route's stop order, from
\* the second stop of the origin place
C23_ReversedSliceFromSecondStop ==
    /\ Called /\ result.type = "bus_route" /\ result.via = "direct"
    /\ Len(result.stop_path) >= 2
    /\ Len(Origin.stops) = 2
    /\ result.origin_stop = Origin.stops[2]
    /\ \E n \in DOMAIN routes :
           /\ RouteHasBoth(routes[n], result.origin_stop, result.dest_stop)
           /\ FirstAt(StopsOf(routes[n]), result.dest_stop)
                < FirstAt(StopsOf(routes[n]), result.origin_stop)
           /\ result.legs[1].route_id = routes[n].route_id

-----------------------------------------------------------------------------
(* The route of a leg and the edges of the leg.                            *)

\* C24 (leg route covers its edges): in every bus_route of the fallback
\* search, the route_id a leg carries is a member of edge_to_routes for every
\* consecutive pair of the leg's stops, and when every route of the dataset
\* has a route_id no leg is without one.
C24_LegRouteCoversEdges ==
    (Called /\ result.type = "bus_route" /\ result.via = "bfs") =>
        \A k \in DOMAIN result.legs :
            /\ result.legs[k].route_id # NoneId =>
                   \A i \in 1..(Len(result.legs[k].stops) - 1) :
                       result.legs[k].route_id
                           \in EdgeIds(result.legs[k].stops[i], result.legs[k].stops[i + 1])
            /\ (\A n \in DOMAIN routes : routes[n].route_id # NoneId) =>
                   result.legs[k].route_id # NoneId

-----------------------------------------------------------------------------
(* The stops of a returned stop_path.                                      *)

\* C25 (stops of a plan are graph-connected canonical stops): in every
\* bus_route result, direct or fallback, each element of stop_path is a
\* non-empty member of route_stop_names and every consecutive pair of
\* stop_path is an edge of the stop graph.
C25_PathOnGraph ==
    (Called /\ result.type = "bus_route") =>
        /\ \A i \in DOMAIN result.stop_path :
               /\ result.stop_path[i] # <<>>
               /\ Contains(route_stop_names, result.stop_path[i])
        /\ \A i \in 1..(Len(result.stop_path) - 1) :
               result.stop_path[i + 1] \in AdjSet(result.stop_path[i])

\* C26 (no repeated stop in a plan): in every bus_route result, direct or
\* fallback, stop_path holds each stop at most once.
C26_NoRepeatedStop ==
    (Called /\ result.type = "bus_route") =>
        \A i \in DOMAIN result.stop_path, j \in DOMAIN result.stop_path :
            result.stop_path[i] = result.stop_path[j] => i = j

\* ---------------------------------------------------------------------------
\* The chat layer's sessions (chatbot.py lines 21-158, app.py lines 28-51)
\* ---------------------------------------------------------------------------

\* the session_id of a request: missing, empty, the shared key itself, or one
\* of a client's own
SessionIds == {NoneId, "", "default", "s1"}

\* a context dict without a "mode" entry
Absent == "<absent>"

\* a message, given by its words in lower case (the text is the words joined
\* by single blanks); <<>> is a message that is None, empty or all blanks
Messages ==
    {<<>>, <<"parking">>, <<"bus">>, <<"both">>, <<"help">>, <<"hello">>,
     <<"permit">>, <<"bus", "permit">>, <<"from", "h", "to", "y">>}

\* chatbot.py lines 30-31: the key a session_id is stored under
SessionKey(session_id) ==
    IF session_id = NoneId \/ session_id = "" THEN "default" ELSE session_id

\* ctx.get("mode")
GetMode(ctx) == IF ctx = Absent THEN NoneId ELSE ctx

\* the context dict a new session gets: {} is a fresh object
NewCtx(cs) == CHOOSE c \in CtxIds : cs[c] = Free /\ \A b \in CtxIds : cs[b] = Free => c <= b

\* reference counting: a dict that neither sessions nor a thread refers to is gone
Held(ss, ts, c) ==
    \/ \E k \in DOMAIN ss : ss[k] = c
    \/ \E t \in Threads : "ctx" \in DOMAIN ts[t] /\ ts[t].ctx = c

Collect(ss, ts, cs) == [c \in CtxIds |-> IF Held(ss, ts, c) THEN cs[c] ELSE Free]

\* lines 50-51: word-level detection
wants_parking(words) ==
    \E i \in DOMAIN words :
        words[i] \in {"park", "parking", "lot", "permit", "commuter", "resident"}

wants_bus(words) ==
    \E i \in DOMAIN words :
        words[i] \in {"bus", "buses", "route", "routes", "shuttle", "shuttles",
                      "stop", "stops"}

\* lines 87-89
is_bus_like(words) ==
    \/ wants_bus(words)
    \/ /\ \E i \in 1 .. Len(words) - 1 : words[i] = "from"
       /\ \E i \in 2 .. Len(words) - 1 : words[i] = "to"
    \/ /\ \E i \in 1 .. Len(words) - 1 : words[i] = "starting" /\ words[i + 1] = "building"
       /\ \E i \in DOMAIN words : words[i] = "destination"

\* lines 92-100
Intent(words, mode) ==
    IF is_bus_like(words) /\ ~wants_parking(words) THEN "bus"
    ELSE IF wants_parking(words) /\ ~is_bus_like(words) THEN "parking"
    ELSE IF is_bus_like(words) /\ wants_parking(words)
    THEN (IF mode = NoneId THEN "parking" ELSE mode)
    ELSE mode

\* lines 58, 66, 74: the explicit mode commands
Command(words) ==
    IF words \in {<<"parking">>, <<"parking", "question">>, <<"park">>} THEN "parking"
    ELSE IF words \in {<<"bus">>, <<"bus", "question">>, <<"buses">>} THEN "bus"
    ELSE IF words \in {<<"both">>, <<"parking", "and", "bus">>, <<"bus", "and", "parking">>}
    THEN "both"
    ELSE NoneId

\* line 104
WantsHelp(words, intent) ==
    words \in {<<"help">>, <<"menu">>, <<"options">>} \/ intent = NoneId

\* the mode a session has: what its context dict holds, None without a dict
ModeUnder(ss, cs, key) ==
    IF key \in DOMAIN ss THEN GetMode(cs[ss[key]]) ELSE NoneId

\* ctx["mode"] = mode by thread t gives the session of the thread's call
\* another mode than it had
Changes(t, mode) ==
    ModeUnder(sessions, [ctxs EXCEPT ![threads[t].ctx] = mode], threads[t].key)
        # ModeUnder(sessions, ctxs, threads[t].key)

\* ctx["mode"] = mode by thread t
SetMode(t, mode, next) ==
    /\ ctxs' = [ctxs EXCEPT ![threads[t].ctx] = mode]
    /\ threads' = [threads EXCEPT ![t] =
                      next @@ [changed |-> threads[t].changed \/ Changes(t, mode)]
                           @@ threads[t]]
    /\ sessions' = sessions

\* the call of thread t returns: the thread lets go of its context dict
Reply(t, text) ==
    [pc |-> "returned", reply |-> text, changed |-> threads[t].changed]

Replies(t, text) ==
    /\ threads' = [threads EXCEPT ![t] = Reply(t, text)]
    /\ ctxs' = Collect(sessions, threads', ctxs)
    /\ sessions' = sessions

\* ctx["mode"] = mode and return, lines 59-60, 67-68, 75-76, 115-158
SetAndReturn(t, mode, text) ==
    /\ threads' = [threads EXCEPT ![t] =
                      [Reply(t, text) EXCEPT !.changed = @ \/ Changes(t, mode)]]
    /\ ctxs' = Collect(sessions, threads', [ctxs EXCEPT ![threads[t].ctx] = mode])
    /\ sessions' = sessions

Planner == <<routes, buildings, phase, index, call, result, run, probe>>

\* app.py lines 28-39 and _get_ctx, lines 30-32: a request to /api/chat is
\* served by thread t up to self.sessions.setdefault(session_id, {}); the
\* message of the request is first looked at on line 41
SetDefault(t, entered, key) ==
    IF key \in DOMAIN sessions
    THEN /\ threads' = [threads EXCEPT ![t] = [ctx |-> sessions[key]] @@ entered]
         /\ UNCHANGED <<sessions, ctxs>>
    ELSE /\ threads' = [threads EXCEPT ![t] = [ctx |-> NewCtx(ctxs)] @@ entered]
         /\ sessions' = Put(sessions, key, NewCtx(ctxs))
         /\ ctxs' = [ctxs EXCEPT ![NewCtx(ctxs)] = Absent]

GetCtx(t, session_id) ==
    /\ threads[t].pc \in {"idle", "returned"}
    /\ SetDefault(t, [pc |-> "has_mode", key |-> SessionKey(session_id),
                      changed |-> FALSE],
                  SessionKey(session_id))
    /\ UNCHANGED Planner

\* _get_ctx, line 33: if "mode" not in ctx
HasMode(t) ==
    /\ threads[t].pc = "has_mode"
    /\ threads' = [threads EXCEPT ![t].pc =
                      IF ctxs[threads[t].ctx] = Absent THEN "init_mode" ELSE "chat"]
    /\ UNCHANGED <<sessions, ctxs, Planner>>

\* _get_ctx, line 34: ctx["mode"] = None
InitMode(t) ==
    /\ threads[t].pc = "init_mode"
    /\ SetMode(t, NoneId, [pc |-> "chat"])
    /\ UNCHANGED Planner

\* chat, lines 83-113: mode = ctx.get("mode"), then the help text or on to
\* line 115 with the intent
Answer(t, message, intent) ==
    IF WantsHelp(message, intent)
    THEN Replies(t, "help")
    ELSE /\ threads' = [threads EXCEPT ![t] =
                           [pc |-> "set_mode", intent |-> intent] @@ @]
         /\ UNCHANGED <<sessions, ctxs>>

\* chat, lines 41-113: the empty message, the mode commands, the help text
Read(t, message) ==
    /\ threads[t].pc = "chat"
    /\ IF message = <<>>
       THEN Replies(t, "empty")
       ELSE IF Command(message) # NoneId
       THEN SetAndReturn(t, Command(message), "command")
       ELSE Answer(t, message, Intent(message, GetMode(ctxs[threads[t].ctx])))
    /\ UNCHANGED Planner

\* chat, lines 115-158: ctx["mode"] = intent and an answer
SetIntent(t) ==
    /\ threads[t].pc = "set_mode"
    /\ SetAndReturn(t, threads[t].intent, "answer")
    /\ UNCHANGED Planner

\* app.py lines 47-51: chatbot.logic.reset() does nothing (parking_logic.py
\* line 13), then chatbot.sessions.clear()
api_reset ==
    /\ sessions' = EmptyDict
    /\ ctxs' = Collect(EmptyDict, threads, ctxs)
    /\ UNCHANGED <<threads, Planner>>

InitChat ==
    /\ routes = <<>>
    /\ buildings = <<>>
    /\ InitIndex

NextChat ==
    \/ \E t \in Threads, session_id \in SessionIds : GetCtx(t, session_id)
    \/ \E t \in Threads : HasMode(t)
    \/ \E t \in Threads : InitMode(t)
    \/ \E t \in Threads, message \in Messages : Read(t, message)
    \/ \E t \in Threads : SetIntent(t)
    \/ api_reset

SpecChat == InitChat /\ [][NextChat]_vars

\* a step of a call leaves the mode of every session but its own as it was
OthersUntouched ==
    \A t \in Threads :
        threads'[t] # threads[t] =>
            \A key \in Keys \ {IF "key" \in DOMAIN threads[t] THEN threads[t].key
                                                              ELSE threads'[t].key} :
                ModeUnder(sessions', ctxs', key) = ModeUnder(sessions, ctxs, key)

\* a step that is not a step of a call is /api/reset
ResetEmpties == (threads' = threads /\ vars' # vars) => DOMAIN sessions' = {}

\* a call that has returned the empty-message prompt or the help text
Quiet(t) == threads[t].pc = "returned" /\ threads[t].reply \in {"empty", "help"}

\* C27: whatever the interleaving of the calls, a chat call leaves the mode of
\* every session other than the one of its own key (the shared key "default"
\* for a missing or empty id) unchanged, a call that returns the
\* empty-message prompt or the help text leaves the mode of its own session
\* unchanged too, and /api/reset leaves sessions empty
C27_SessionIsolation ==
    /\ [][OthersUntouched /\ ResetEmpties]_vars
    /\ [](\A t \in Threads : Quiet(t) => ~threads[t].changed)

====
